---- MODULE Spec2Model ----
(***************************************************************************)
(* A model of the entry consolidation and translation engine of            *)
(* po_translator: POMerger + ModuleIndexer (core/merger.py,                *)
(* core/indexer.py), OfflineTranslatorEngine, TranslationCache and         *)
(* Translator (translator.py), and the worker pool of gui/app.py.          *)
(* Texts are TLA+ strings; Len, SubSeq and \o act on them character by     *)
(* character.                                                              *)
(***************************************************************************)
EXTENDS Integers, Sequences, FiniteSets, TLC

VARIABLES
    files,              \* the catalogs on disk: path -> [parsed, entries]
    merged_entries,     \* POMerger.merged_entries: msgid -> entry
    entry_to_module,    \* ModuleIndexer.entry_to_module
    module_to_entries,  \* ModuleIndexer.module_to_entries: module -> list of ids
    msnap,              \* what the most recent merge_files call was given and left behind
    mprev,              \* the same for the merge_files call before it, when given the same list
    mlast,              \* the most recent POMerger call: its arguments, result and pre-state
    mcount,             \* update_entry calls since the last merge_files
    otext,              \* the text given to OfflineTranslatorEngine.translate
    opair,              \* the <<source, target>> languages given with it
    oresult,            \* what the call returned, Pending before it
    translator,         \* the Translator object: its fields, named as in translator.py
    provider,           \* the remote provider: what it answers, and how often it was invoked
    now,                \* time.time(), in ticks of Tick seconds
    tprev,              \* the Translator.translate call before the most recent one
    tlast,              \* the most recent Translator.translate call made by a caller
    tcount,             \* calls made on the Translator so far
    detector,           \* what the statistical detectors say of a text the heuristics leave open
    po_entries,         \* the PO entries handed to auto_translate_entry and batch_translate
    elast,              \* the most recent auto_translate_entry call
    blast,              \* the most recent batch_translate call
    pool,               \* the worker threads of start_translation: where each one stands
    pending,            \* the entries submitted to the pool that no worker has taken yet
    call_times,         \* the times at which the provider was invoked, in order
    translating,        \* the flag of the application the worker threads poll
    writers,            \* the threads inside TranslationCache.set: where each one stands
    cache_order,        \* the keys of the in-memory cache in the order of their insertion
    cache_file,         \* the characters of the cache file on disk
    written,            \* the arguments of every TranslationCache.set call, in order
    detection,          \* utils/language.py: its module globals and the lru_cache of its functions
    dlast,              \* the most recent detect_language call
    dcount,             \* detect_language calls made so far
    AVAILABLE           \* whether google.generativeai could be imported

mergeVars == <<files, merged_entries, entry_to_module, module_to_entries, msnap, mprev, mlast, mcount>>

offlineVars == <<otext, opair, oresult>>

translateVars == <<translator, provider, now, tprev, tlast, tcount, detector, po_entries, elast, blast>>

rateVars == <<pool, pending, call_times, translating>>

cacheVars == <<writers, cache_order, cache_file, written>>

detectVars == <<detection, dlast, dcount>>

vars == <<mergeVars, offlineVars, translateVars, rateVars, cacheVars, detectVars, AVAILABLE>>

\* what the actions of each specification leave alone
notMerge == <<offlineVars, translateVars, rateVars, cacheVars, detectVars, AVAILABLE>>

notOffline == <<mergeVars, translateVars, rateVars, cacheVars, detectVars, AVAILABLE>>

notTranslate == <<mergeVars, offlineVars, rateVars, cacheVars, detectVars, AVAILABLE>>

notPool == <<mergeVars, offlineVars, tprev, tlast, tcount, detector, elast, blast, cacheVars,
             detectVars, AVAILABLE>>

notCache == <<mergeVars, offlineVars, provider, now, tprev, tlast, tcount, detector, po_entries,
              elast, blast, rateVars, detectVars, AVAILABLE>>

notDetect == <<mergeVars, offlineVars, translateVars, rateVars, cacheVars, AVAILABLE>>

notConfig == <<mergeVars, offlineVars, tprev, tlast, detector, elast, blast, rateVars, cacheVars,
               detectVars, AVAILABLE>>

-----------------------------------------------------------------------------
(* Strings *)

None == "<None>"

\* the result of a call that has not been made
Pending == "<Pending>"

Char(s, i) == SubSeq(s, i, i)

\* Python's str.isspace for the characters the model uses
IsSpace(c) == c \in {" ", "\t", "\n"}

RECURSIVE LStrip(_)
LStrip(s) == IF Len(s) > 0 /\ IsSpace(Char(s, 1)) THEN LStrip(SubSeq(s, 2, Len(s))) ELSE s

RECURSIVE RStrip(_)
RStrip(s) == IF Len(s) > 0 /\ IsSpace(Char(s, Len(s))) THEN RStrip(SubSeq(s, 1, Len(s) - 1)) ELSE s

\* str.strip()
Strip(s) == RStrip(LStrip(s))

\* s[i:].startswith(p), i counted from 1
StartsWithAt(s, i, p) == i + Len(p) - 1 <= Len(s) /\ SubSeq(s, i, i + Len(p) - 1) = p

\* the first index >= i whose character is in cs, or Len(s) + 1
RECURSIVE FirstIn(_, _, _)
FirstIn(s, i, cs) ==
    IF i > Len(s) THEN Len(s) + 1
    ELSE IF Char(s, i) \in cs THEN i
    ELSE FirstIn(s, i + 1, cs)

-----------------------------------------------------------------------------
(* utils/file_utils: extract_module_name *)

PathSep == {"/", "\\"}

\* the module name captured by (?:addons|modules)[/\\]([^/\\]+)[/\\]i18n matched at
\* position i, or None
ModuleMatchAt(fp, i) ==
    LET root == IF StartsWithAt(fp, i, "addons") THEN "addons"
                ELSE IF StartsWithAt(fp, i, "modules") THEN "modules"
                ELSE None
        j == i + Len(root)                      \* the separator after the root
        k == FirstIn(fp, j + 1, PathSep)        \* the separator after the name
    IN  IF root = None THEN None
        ELSE IF ~(j <= Len(fp) /\ Char(fp, j) \in PathSep) THEN None
        ELSE IF k = j + 1 \/ k > Len(fp) THEN None
        ELSE IF StartsWithAt(fp, k + 1, "i18n") THEN SubSeq(fp, j + 1, k - 1)
        ELSE None

RECURSIVE ModuleSearch(_, _)
ModuleSearch(fp, i) ==
    IF i > Len(fp) THEN None
    ELSE IF ModuleMatchAt(fp, i) # None THEN ModuleMatchAt(fp, i)
    ELSE ModuleSearch(fp, i + 1)

extract_module_name(filepath) ==
    IF filepath = "" THEN "unknown"
    ELSE IF ModuleSearch(filepath, 1) # None THEN ModuleSearch(filepath, 1)
    ELSE "unknown"

-----------------------------------------------------------------------------
(* Letter case: str.upper, str.lower, str.title, str.isupper, str.islower, str.istitle *)

LowerLetters == "abcdefghijklmnopqrstuvwxyzéûô"
UpperLetters == "ABCDEFGHIJKLMNOPQRSTUVWXYZÉÛÔ"

LowerSet == { Char(LowerLetters, i) : i \in 1..Len(LowerLetters) }
UpperSet == { Char(UpperLetters, i) : i \in 1..Len(UpperLetters) }

ToUpperMap == [c \in LowerSet |-> Char(UpperLetters, CHOOSE i \in 1..Len(LowerLetters) : Char(LowerLetters, i) = c)]
ToLowerMap == [c \in UpperSet |-> Char(LowerLetters, CHOOSE i \in 1..Len(UpperLetters) : Char(UpperLetters, i) = c)]

UpperC(c) == IF c \in LowerSet THEN ToUpperMap[c] ELSE c
LowerC(c) == IF c \in UpperSet THEN ToLowerMap[c] ELSE c

RECURSIVE UpperFrom(_, _, _)
UpperFrom(s, i, out) == IF i > Len(s) THEN out ELSE UpperFrom(s, i + 1, out \o UpperC(Char(s, i)))

RECURSIVE LowerFrom(_, _, _)
LowerFrom(s, i, out) == IF i > Len(s) THEN out ELSE LowerFrom(s, i + 1, out \o LowerC(Char(s, i)))

upper(s) == UpperFrom(s, 1, "")
lower(s) == LowerFrom(s, 1, "")

HasUpper(s) == \E i \in 1..Len(s) : Char(s, i) \in UpperSet
HasLower(s) == \E i \in 1..Len(s) : Char(s, i) \in LowerSet

isupper(s) == HasUpper(s) /\ ~HasLower(s)
islower(s) == HasLower(s) /\ ~HasUpper(s)

IsCased(c) == c \in UpperSet \/ c \in LowerSet

\* uppercase letters only after uncased characters, lowercase only after cased ones
istitle(s) ==
    /\ HasUpper(s)
    /\ \A i \in 1..Len(s) :
          LET after_cased == i > 1 /\ IsCased(Char(s, i - 1))
          IN  /\ Char(s, i) \in UpperSet => ~after_cased
              /\ Char(s, i) \in LowerSet => after_cased

RECURSIVE TitleFrom(_, _, _)
TitleFrom(s, i, out) ==
    IF i > Len(s) THEN out
    ELSE TitleFrom(s, i + 1,
                   out \o (IF i > 1 /\ IsCased(Char(s, i - 1)) THEN LowerC(Char(s, i))
                           ELSE UpperC(Char(s, i))))

title(s) == TitleFrom(s, 1, "")

-----------------------------------------------------------------------------
(* translator.py: OfflineTranslatorEngine *)

OFFLINE_DICTIONARY ==
    [en_fr |->
        [phrases |-> << <<"purchase order", "bon de commande">>, <<"sales order", "commande client">>,
                        <<"delivery order", "bon de livraison">>, <<"quotation", "devis">>,
                        <<"confirm the order", "confirmer la commande">>,
                        <<"confirm order", "confirmer la commande">>,
                        <<"create invoice", "créer la facture">>, <<"customer invoice", "facture client">>,
                        <<"vendor bill", "facture fournisseur">>, <<"total amount", "montant total">>,
                        <<"payment terms", "conditions de paiement">> >>,
         words |-> << <<"confirm", "confirmer">>, <<"confirming", "confirmation">>,
                      <<"confirmations", "confirmations">>, <<"order", "commande">>,
                      <<"orders", "commandes">>, <<"customer", "client">>, <<"customers", "clients">>,
                      <<"vendor", "fournisseur">>, <<"vendors", "fournisseurs">>,
                      <<"invoice", "facture">>, <<"invoices", "factures">>, <<"quotation", "devis">>,
                      <<"quotations", "devis">>, <<"delivery", "livraison">>, <<"product", "article">>,
                      <<"products", "articles">>, <<"amount", "montant">>, <<"total", "total">>,
                      <<"create", "créer">>, <<"new", "nouveau">>, <<"draft", "brouillon">>,
                      <<"validate", "valider">>, <<"warehouse", "entrepôt">>, <<"stock", "stock">>,
                      <<"partner", "partenaire">>, <<"payment", "paiement">>,
                      <<"payments", "paiements">>, <<"due", "dû">>, <<"deadline", "échéance">>,
                      <<"comment", "commentaire">>, <<"comments", "commentaires">>,
                      <<"please", "veuillez">>, <<"save", "enregistrer">>, <<"cancel", "annuler">>,
                      <<"apply", "appliquer">>, <<"amounts", "montants">>, <<"lines", "lignes">> >>],
     fr_en |->
        [phrases |-> << <<"bon de commande", "purchase order">>, <<"bon de livraison", "delivery order">>,
                        <<"facture client", "customer invoice">>, <<"facture fournisseur", "vendor bill">>,
                        <<"confirmer la commande", "confirm the order">>,
                        <<"montant total", "total amount">> >>,
         words |-> << <<"commande", "order">>, <<"commandes", "orders">>, <<"client", "customer">>,
                      <<"clients", "customers">>, <<"fournisseur", "vendor">>,
                      <<"fournisseurs", "vendors">>, <<"facture", "invoice">>,
                      <<"factures", "invoices">>, <<"devis", "quotation">>, <<"livraison", "delivery">>,
                      <<"article", "product">>, <<"articles", "products">>, <<"montant", "amount">>,
                      <<"montants", "amounts">>, <<"paiement", "payment">>, <<"paiements", "payments">>,
                      <<"valider", "validate">>, <<"créer", "create">>, <<"annuler", "cancel">>,
                      <<"enregistrer", "save">>, <<"commentaire", "comment">>,
                      <<"commentaires", "comments">>, <<"entrepôt", "warehouse">> >>],
     en_es |->
        [phrases |-> << <<"sales order", "orden de venta">>, <<"purchase order", "orden de compra">>,
                        <<"confirm the order", "confirmar el pedido">> >>,
         words |-> << <<"order", "pedido">>, <<"orders", "pedidos">>, <<"invoice", "factura">>,
                      <<"invoices", "facturas">>, <<"customer", "cliente">>,
                      <<"customers", "clientes">>, <<"total", "total">>, <<"amount", "importe">>,
                      <<"confirm", "confirmar">>, <<"create", "crear">> >>],
     es_en |->
        [phrases |-> << <<"orden de venta", "sales order">>, <<"orden de compra", "purchase order">> >>,
         words |-> << <<"pedido", "order">>, <<"pedidos", "orders">>, <<"factura", "invoice">>,
                      <<"facturas", "invoices">>, <<"cliente", "customer">>,
                      <<"clientes", "customers">>, <<"confirmar", "confirm">>,
                      <<"crear", "create">> >>]]

\* the dictionary key of a (source, target) pair
PairKey(source, target) == source \o "_" \o target

supports_pair(source, target) == PairKey(source, target) \in DOMAIN OFFLINE_DICTIONARY

_apply_case(source, target) ==
    IF source = "" \/ target = "" THEN target
    ELSE IF isupper(source) THEN upper(target)
    ELSE IF islower(source) THEN lower(target)
    ELSE IF istitle(source) THEN title(target)
    ELSE IF Char(source, 1) \in UpperSet THEN UpperC(Char(target, 1)) \o SubSeq(target, 2, Len(target))
    ELSE target

\* sorted(phrases, key=len of the source phrase, reverse=True): a stable insertion sort
RECURSIVE InsertByLen(_, _, _)
InsertByLen(sorted, item, i) ==
    IF i > Len(sorted) THEN Append(sorted, item)
    ELSE IF Len(sorted[i][1]) < Len(item[1])
         THEN SubSeq(sorted, 1, i - 1) \o <<item>> \o SubSeq(sorted, i, Len(sorted))
         ELSE InsertByLen(sorted, item, i + 1)

RECURSIVE SortByLen(_, _)
SortByLen(sorted, rest) ==
    IF rest = <<>> THEN sorted ELSE SortByLen(InsertByLen(sorted, Head(rest), 1), Tail(rest))

\* _get_rules: the phrases longest first, and the words, of each pair
Rules ==
    [pair \in DOMAIN OFFLINE_DICTIONARY |->
        [phrases |-> SortByLen(<<>>, OFFLINE_DICTIONARY[pair].phrases),
         words |-> OFFLINE_DICTIONARY[pair].words]]

_get_rules(source, target) == Rules[PairKey(source, target)]

\* the length of the match of %\([^)]+\)s at position i, 0 when there is none
MatchNamedPercent(s, i) ==
    LET j == FirstIn(s, i + 2, {")"})
    IN  IF StartsWithAt(s, i, "%(") /\ j > i + 2 /\ j < Len(s) /\ Char(s, j + 1) = "s"
        THEN j + 2 - i ELSE 0

\* \{[^}]+\}
MatchBraces(s, i) ==
    LET j == FirstIn(s, i + 1, {"}"})
    IN  IF StartsWithAt(s, i, "{") /\ j > i + 1 /\ j <= Len(s) THEN j + 1 - i ELSE 0

\* \$\{[^}]+\}
MatchDollarBraces(s, i) ==
    IF StartsWithAt(s, i, "$") /\ MatchBraces(s, i + 1) > 0 THEN 1 + MatchBraces(s, i + 1) ELSE 0

\* {{[^}]+}}
MatchDoubleBraces(s, i) ==
    LET j == FirstIn(s, i + 2, {"}"})
    IN  IF StartsWithAt(s, i, "{{") /\ j > i + 2 /\ j < Len(s) /\ Char(s, j + 1) = "}"
        THEN j + 2 - i ELSE 0

\* PLACEHOLDER_PATTERN matched at position i: the alternatives in the order written
PlaceholderAt(s, i) ==
    IF MatchNamedPercent(s, i) > 0 THEN MatchNamedPercent(s, i)
    ELSE IF StartsWithAt(s, i, "%s") THEN 2
    ELSE IF MatchBraces(s, i) > 0 THEN MatchBraces(s, i)
    ELSE IF MatchDollarBraces(s, i) > 0 THEN MatchDollarBraces(s, i)
    ELSE MatchDoubleBraces(s, i)

\* the opaque marker of placeholder number n
Marker(n) == "__PH_" \o ToString(n) \o "__"

\* PLACEHOLDER_PATTERN.sub(_stash_placeholder, working): the text with markers, and the
\* placeholders stashed, in order
RECURSIVE StashFrom(_, _, _, _)
StashFrom(s, i, out, stashed) ==
    IF i > Len(s) THEN [working |-> out, placeholders |-> stashed]
    ELSE IF PlaceholderAt(s, i) > 0
         THEN StashFrom(s, i + PlaceholderAt(s, i), out \o Marker(Len(stashed)),
                        Append(stashed, SubSeq(s, i, i + PlaceholderAt(s, i) - 1)))
         ELSE StashFrom(s, i + 1, out \o Char(s, i), stashed)

\* re.compile(re.escape(phrase), re.IGNORECASE).sub(_phrase_repl, working); low is
\* lower(s), and the phrases are lower case
RECURSIVE PhraseSubFrom(_, _, _, _, _, _)
PhraseSubFrom(s, low, i, out, phrase, replacement) ==
    IF i > Len(s) THEN out
    ELSE IF StartsWithAt(low, i, phrase)
         THEN PhraseSubFrom(s, low, i + Len(phrase),
                            out \o _apply_case(SubSeq(s, i, i + Len(phrase) - 1), replacement),
                            phrase, replacement)
         ELSE PhraseSubFrom(s, low, i + 1, out \o Char(s, i), phrase, replacement)

RECURSIVE ApplyPhrases(_, _)
ApplyPhrases(working, phrases) ==
    IF phrases = <<>> THEN working
    ELSE ApplyPhrases(PhraseSubFrom(working, lower(working), 1, "", Head(phrases)[1], Head(phrases)[2]),
                      Tail(phrases))

\* WORD_PATTERN, [A-Za-zÀ-ÿ']+
IsWordChar(c) == IsCased(c) \/ c = "'"

RECURSIVE WordEnd(_, _)
WordEnd(s, i) == IF i <= Len(s) /\ IsWordChar(Char(s, i)) THEN WordEnd(s, i + 1) ELSE i

\* word_map: a later pair of the table replaces an earlier one with the same source word
WordMap(words) ==
    [w \in { words[i][1] : i \in 1..Len(words) } |->
        words[CHOOSE i \in 1..Len(words) :
                 words[i][1] = w /\ \A j \in 1..Len(words) : words[j][1] = w => j <= i][2]]

WordMaps == [pair \in DOMAIN OFFLINE_DICTIONARY |-> WordMap(OFFLINE_DICTIONARY[pair].words)]

_word_repl(token, word_map) ==
    IF lower(token) \notin DOMAIN word_map THEN token
    ELSE _apply_case(token, word_map[lower(token)])

\* WORD_PATTERN.sub(_word_repl, working)
RECURSIVE WordSubFrom(_, _, _, _)
WordSubFrom(s, i, out, word_map) ==
    IF i > Len(s) THEN out
    ELSE IF IsWordChar(Char(s, i))
         THEN WordSubFrom(s, WordEnd(s, i), out \o _word_repl(SubSeq(s, i, WordEnd(s, i) - 1), word_map),
                          word_map)
         ELSE WordSubFrom(s, i + 1, out \o Char(s, i), word_map)

\* str.replace(old, new): every occurrence, left to right
RECURSIVE ReplaceFrom(_, _, _, _, _)
ReplaceFrom(s, i, out, old, new) ==
    IF i > Len(s) THEN out
    ELSE IF StartsWithAt(s, i, old) THEN ReplaceFrom(s, i + Len(old), out \o new, old, new)
    ELSE ReplaceFrom(s, i + 1, out \o Char(s, i), old, new)

replace(s, old, new) == ReplaceFrom(s, 1, "", old, new)

\* lines 276-277: the markers put back, in the order they were stashed
RECURSIVE RestoreFrom(_, _, _)
RestoreFrom(working, placeholders, k) ==
    IF k > Len(placeholders) THEN working
    ELSE RestoreFrom(replace(working, Marker(k - 1), placeholders[k]), placeholders, k + 1)

RECURSIVE SpaceEnd(_, _)
SpaceEnd(s, i) == IF i <= Len(s) /\ IsSpace(Char(s, i)) THEN SpaceEnd(s, i + 1) ELSE i

\* line 279: a run of whitespace with no newline becomes one space
RECURSIVE NormalizeFrom(_, _, _)
NormalizeFrom(s, i, out) ==
    IF i > Len(s) THEN out
    ELSE IF IsSpace(Char(s, i))
         THEN NormalizeFrom(s, SpaceEnd(s, i),
                            out \o (IF \E k \in i..(SpaceEnd(s, i) - 1) : Char(s, k) = "\n"
                                    THEN SubSeq(s, i, SpaceEnd(s, i) - 1) ELSE " "))
         ELSE NormalizeFrom(s, i + 1, out \o Char(s, i))

\* lines 245-280, for a supported pair and a text that is not blank
TranslateSupported(text, source, target) ==
    LET stash == StashFrom(text, 1, "", <<>>)
        rules == _get_rules(source, target)
        phrased == ApplyPhrases(stash.working, rules.phrases)
        worded == WordSubFrom(phrased, 1, "", WordMaps[PairKey(source, target)])
        restored == RestoreFrom(worded, stash.placeholders, 1)
    IN  Strip(NormalizeFrom(restored, 1, ""))

\* OfflineTranslatorEngine.translate; None when the pair has no glossary
OfflineTranslate(text, source, target) ==
    IF text = "" \/ Strip(text) = "" THEN text
    ELSE IF ~supports_pair(source, target) THEN None
    ELSE TranslateSupported(text, source, target)

-----------------------------------------------------------------------------
(* Bounds and inputs of the merge model *)

MaxEntries == 2     \* entries in all catalogs together

PathOrder == <<"addons/sale/i18n/fr.po", "modules/stock/i18n/fr.po", "misc/fr.po">>

Paths == { PathOrder[i] : i \in 1..3 }

Entry(id, str, obs) == [msgid |-> id, msgstr |-> str, obsolete |-> obs]

\* the entries a catalog may hold
EntryPool ==
    { Entry("Invoice", s, FALSE) : s \in {"", "Facture"} }
    \cup { Entry(" Invoice", "Note", FALSE), Entry("Order", "", FALSE), Entry("", "Facture", FALSE),
           Entry("Invoice", "Facture", TRUE) }

SeqsUpTo(S, n) == UNION { [1..k -> S] : k \in 0..n }

\* the path lists given to merge_files
PathLists ==
    { <<PathOrder[1]>>, <<PathOrder[1], PathOrder[2]>>, <<PathOrder[2], PathOrder[1]>>,
      <<PathOrder[3], PathOrder[1]>>, <<PathOrder[1], PathOrder[1]>> }

\* the <<msgid, new_msgid, new_msgstr>> arguments of update_entry
UpdateArgs ==
    { <<"Invoice", None, "Devis">>, <<"Invoice", "Order", None>>, <<"Invoice", "Bill", "Devis">>,
      <<"Bill", "Invoice", None>> }

EmptyMap == <<>>

-----------------------------------------------------------------------------
(* core/cleaner.py: POCleaner *)

\* whitespace normalisation of one text: runs collapse to one space, ends trimmed
RECURSIVE CollapseSpaces(_)
CollapseSpaces(s) ==
    IF Len(s) = 0 THEN ""
    ELSE IF IsSpace(Char(s, 1))
         THEN " " \o CollapseSpaces(LStrip(s))
         ELSE Char(s, 1) \o CollapseSpaces(SubSeq(s, 2, Len(s)))

clean_text(s) == CollapseSpaces(Strip(s))

RECURSIVE clean_entries(_)
clean_entries(entries) ==
    IF entries = <<>> THEN <<>>
    ELSE LET e == Head(entries)
             c == [e EXCEPT !.msgid = clean_text(e.msgid), !.msgstr = clean_text(e.msgstr)]
         IN  IF c.msgid = "" THEN clean_entries(Tail(entries))
             ELSE <<c>> \o clean_entries(Tail(entries))

merge_entries(entry1, entry2) ==
    IF entry1.msgstr = "" /\ entry2.msgstr # "" THEN entry2 ELSE entry1

-----------------------------------------------------------------------------
(* core/indexer.py: ModuleIndexer; the index is the pair <<entry_to_module, module_to_entries>> *)

Put(f, k, v) == [x \in DOMAIN f \cup {k} |-> IF x = k THEN v ELSE f[x]]

Remove(f, k) == [x \in DOMAIN f \ {k} |-> f[x]]

InSeq(x, s) == \E i \in 1..Len(s) : s[i] = x

\* extract_module_name of the paths the model indexes, computed once
ModuleNames ==
    [p \in Paths \cup { "addons/" \o m \o "/i18n/fr.po" : m \in {"sale", "stock", "unknown"} } |->
        extract_module_name(p)]

index_entry(ix, entry_id, filepath) ==
    LET module_name == IF filepath \in DOMAIN ModuleNames THEN ModuleNames[filepath]
                       ELSE extract_module_name(filepath)
        e2m == Put(ix[1], entry_id, module_name)
        m2e0 == IF module_name \in DOMAIN ix[2] THEN ix[2] ELSE Put(ix[2], module_name, <<>>)
        m2e == IF InSeq(entry_id, m2e0[module_name]) THEN m2e0
               ELSE Put(m2e0, module_name, Append(m2e0[module_name], entry_id))
    IN  <<e2m, m2e>>

get_module(e2m, entry_id) == IF entry_id \in DOMAIN e2m THEN e2m[entry_id] ELSE "unknown"

ClearedIndex == <<EmptyMap, EmptyMap>>

-----------------------------------------------------------------------------
(* core/merger.py: POMerger *)

\* load_po_file: polib's entries, or nothing for a catalog that does not parse
load_po_file(filepath) == files[filepath]

\* merge_files, lines 53-67: the entries of one catalog, indexed and collected
RECURSIVE LoadEntries(_, _, _)
LoadEntries(acc, po_file, filepath) ==
    IF po_file = <<>> THEN acc
    ELSE LET entry == Head(po_file)
         IN  IF entry.obsolete THEN LoadEntries(acc, Tail(po_file), filepath)
             ELSE LoadEntries([ix |-> index_entry(acc.ix, entry.msgid, filepath),
                               all |-> Append(acc.all, entry)],
                              Tail(po_file), filepath)

RECURSIVE LoadFiles(_, _)
LoadFiles(acc, filepaths) ==
    IF filepaths = <<>> THEN acc
    ELSE LET po_file == load_po_file(Head(filepaths))
         IN  IF ~po_file.parsed \/ po_file.entries = <<>> THEN LoadFiles(acc, Tail(filepaths))
             ELSE LoadFiles(LoadEntries(acc, po_file.entries, Head(filepaths)), Tail(filepaths))

\* merge_files, lines 75-84: one turn of the dedup loop, with a silent overwrite in
\* place of the merge policy
DedupOverwrite(merged, entry) == Put(merged, entry.msgid, entry)

\* merge_files, lines 75-84: one turn of the dedup loop
DedupStep(merged, entry) ==
    IF entry.msgid \in DOMAIN merged
    THEN Put(merged, entry.msgid, merge_entries(merged[entry.msgid], entry))
    ELSE Put(merged, entry.msgid, entry)

RECURSIVE DedupLoop(_, _)
DedupLoop(merged, cleaned) ==
    IF cleaned = <<>> THEN merged
    ELSE DedupLoop(DedupStep(merged, Head(cleaned)), Tail(cleaned))

\* a pass that starts from what the last one left
MergeStartKept(merged, ix) == [merged |-> merged, ix |-> ix]

\* merge_files, lines 48-49: what the pass starts from
MergeStart(merged, ix) == [merged |-> EmptyMap, ix |-> ClearedIndex]

merge_files(merged, ix, filepaths) ==
    LET start == MergeStart(merged, ix)
        loaded == LoadFiles([ix |-> start.ix, all |-> <<>>], filepaths)
    IN  [merged |-> DedupLoop(start.merged, clean_entries(loaded.all)), ix |-> loaded.ix]

\* update_entry without the test of lines 122-123: the new key is indexed whatever msgid is
update_entry_unguarded(merged, ix, msgid, new_msgid, new_msgstr) ==
    [merged |-> merged,
     ix |-> index_entry(ix, IF new_msgid # None THEN new_msgid ELSE msgid,
                        "addons/" \o get_module(ix[1], msgid) \o "/i18n/fr.po"),
     ret |-> TRUE]

\* update_entry, lines 122-138; ret is the value returned
update_entry(merged, ix, msgid, new_msgid, new_msgstr) ==
    IF msgid \notin DOMAIN merged THEN [merged |-> merged, ix |-> ix, ret |-> FALSE]
    ELSE LET entry0 == merged[msgid]
             entry1 == IF new_msgstr # None THEN [entry0 EXCEPT !.msgstr = new_msgstr] ELSE entry0
         IN  IF new_msgid # None /\ new_msgid # msgid
             THEN LET old_module == get_module(ix[1], msgid)
                  IN  [merged |-> Remove(Put(merged, new_msgid, [entry1 EXCEPT !.msgid = new_msgid]), msgid),
                       ix |-> index_entry(ix, new_msgid, "addons/" \o old_module \o "/i18n/fr.po"),
                       ret |-> TRUE]
             ELSE [merged |-> Put(merged, msgid, entry1), ix |-> ix, ret |-> TRUE]

-----------------------------------------------------------------------------
(* translator.py: TranslationCache, and the helpers of Translator *)

\* `x or ''`
OrEmpty(x) == IF x = None THEN "" ELSE x

\* Python's truth of a string or None
Truthy(x) == x # None /\ x # ""

\* the key of get and set
CacheKey(text, context) == text \o "|" \o OrEmpty(context)

cache_miss(cache, text, context) == None

cache_get(cache, text, context) ==
    IF CacheKey(text, context) \in DOMAIN cache THEN cache[CacheKey(text, context)] ELSE None

cache_keep(cache, text, translation, context) == cache

cache_set(cache, text, translation, context) == Put(cache, CacheKey(text, context), translation)

\* utils/file_utils: sanitize_text
sanitize_text(text) == IF ~Truthy(text) THEN "" ELSE Strip(text)

LANGUAGES ==
    { "en", "fr", "es", "de", "it", "pt", "nl", "ar", "ca", "ro", "da", "sv", "no", "fi", "gl" }

\* one tick of the clock is 50 ms
rate_limit == 2

\* time.sleep(0.5) before the retry of an invalid response
RetrySleep == 10

\* time.sleep(1) before the retry of a failed request
ErrorSleep == 20

\* the default of max_retries
DefaultMaxRetries == 1

NoStats ==
    [ total_requests |-> 0, cache_hits |-> 0, api_calls |-> 0, errors |-> 0, retries |-> 0,
      auto_corrections |-> 0, offline_requests |-> 0 ]

\* self.stats[k] += 1
Bump(stats, k) == [stats EXCEPT ![k] = @ + 1]

\* Translator.__init__ followed by set_api_key: offline_mode from the environment's
\* toggle, model set when a key was given and the client library initialised
\* an API key
ApiKey == "AIza"

NewTranslator(offline, with_model) ==
    [ cache |-> EmptyMap, api_key |-> IF with_model THEN ApiKey ELSE None,
      model |-> with_model /\ ~offline, source_lang |-> "en",
      target_lang |-> "fr", auto_detect |-> TRUE, offline_mode |-> offline,
      _offline_warning_pairs |-> {}, last_request |-> 0, stats |-> NoStats ]

\* the provider's answer that stands for an exception of generate_content or of response.text
Raise == "<raise>"

\* what the provider answers to its next request
Answer(p) == p.script[(p.calls % Len(p.script)) + 1]

\* _rate_limit at time t: the time at which it returns, which it stores in last_request
_rate_limit(last_request, t) ==
    IF t - last_request < rate_limit THEN last_request + rate_limit ELSE t

\* the pattern of _validate_translation matched at position i
VarAt(s, i) ==
    IF MatchNamedPercent(s, i) > 0 THEN MatchNamedPercent(s, i)
    ELSE IF StartsWithAt(s, i, "%s") THEN 2
    ELSE IF MatchBraces(s, i) > 0 THEN MatchBraces(s, i)
    ELSE MatchDollarBraces(s, i)

\* set(re.findall(..., s))
RECURSIVE VarsFrom(_, _, _)
VarsFrom(s, i, found) ==
    IF i > Len(s) THEN found
    ELSE IF VarAt(s, i) > 0
         THEN VarsFrom(s, i + VarAt(s, i), found \cup {SubSeq(s, i, i + VarAt(s, i) - 1)})
         ELSE VarsFrom(s, i + 1, found)

Vars(s) == VarsFrom(s, 1, {})

\* _validate_translation without the comparison of the placeholders
_validate_translation_nonblank(src, trans) == Truthy(trans) /\ Strip(trans) # ""

_validate_translation(src, trans) ==
    /\ Truthy(trans)
    /\ Strip(trans) # ""
    /\ Vars(src) = Vars(trans)

Quotes == { "\"", "'" }

\* str.strip(chars)
RECURSIVE StripChars(_, _)
StripChars(s, cs) ==
    IF Len(s) > 0 /\ Char(s, 1) \in cs THEN StripChars(SubSeq(s, 2, Len(s)), cs)
    ELSE IF Len(s) > 0 /\ Char(s, Len(s)) \in cs THEN StripChars(SubSeq(s, 1, Len(s) - 1), cs)
    ELSE s

\* s.split("\n")[0]
FirstLine(s) == SubSeq(s, 1, FirstIn(s, 1, {"\n"}) - 1)

\* lines 538-540: what is kept of the provider's response
ResponseText(answer) == FirstLine(StripChars(Strip(answer), Quotes))

\* the state a call works on: the Translator, the provider and the clock
World(self, p, t) == [self |-> self, provider |-> p, now |-> t]

GiveUpNone(w, text) == [w |-> w, ret |-> None]

\* `return text` once no attempt is left
GiveUp(w, text) == [w |-> w, ret |-> text]

\* `attempt < max_retries` is false: no further attempt is made
Exhausted(attempt, max_retries) == attempt >= max_retries

\* lines 530-564: the attempts of an online translation, from number `attempt` on
RECURSIVE Attempt(_, _, _, _, _, _, _, _)
Attempt(w, text, from_lang, to_lang, context, cache_key, max_retries, attempt) ==
    IF attempt > max_retries THEN GiveUp(w, text)
    ELSE
    LET t1 == _rate_limit(w.self.last_request, w.now)
        known == from_lang \in LANGUAGES /\ to_lang \in LANGUAGES
        answer == IF known THEN Answer(w.provider) ELSE Raise
        w1 == [w EXCEPT !.now = t1, !.self.last_request = t1,
                        !.self.stats = Bump(@, "api_calls"),
                        !.provider.calls = IF known THEN @ + 1 ELSE @]
        translation == ResponseText(answer)
    IN  IF answer = Raise
        THEN LET w2 == [w1 EXCEPT !.self.stats = Bump(@, "errors")]
             IN  IF Exhausted(attempt, max_retries) THEN GiveUp(w2, text)
                 ELSE Attempt([w2 EXCEPT !.now = @ + ErrorSleep], text, from_lang, to_lang,
                              context, cache_key, max_retries, attempt + 1)
        ELSE IF _validate_translation(text, translation)
        THEN [w |-> [w1 EXCEPT !.self.cache = cache_set(@, text, translation, cache_key)],
              ret |-> translation]
        ELSE IF Exhausted(attempt, max_retries) THEN GiveUp(w1, text)
        ELSE Attempt([w1 EXCEPT !.self.stats = Bump(@, "retries"), !.now = @ + RetrySleep],
                     text, from_lang, to_lang, context, cache_key, max_retries, attempt + 1)

\* lines 507-524: the offline branch, `engine` being what the offline engine returned
OfflineBranch(w, text, from_lang, to_lang, cache_key, engine) ==
    LET translation == IF Truthy(engine) THEN engine ELSE text
    IN  [w |-> [w EXCEPT !.self._offline_warning_pairs =
                             IF engine = None THEN @ \cup {<<from_lang, to_lang>>} ELSE @,
                         !.self.cache = cache_set(@, text, translation, cache_key),
                         !.self.stats = Bump(@, "offline_requests")],
         ret |-> translation]

\* Translator.translate
translate(w, text, from_lang, to_lang, context, max_retries) ==
    IF ~Truthy(text) THEN [w |-> w, ret |-> text]
    ELSE
    LET clean == sanitize_text(text)
        source == IF Truthy(from_lang) THEN from_lang ELSE w.self.source_lang
        target == IF Truthy(to_lang) THEN to_lang ELSE w.self.target_lang
        cache_key == source \o "→" \o target \o "|" \o OrEmpty(context)
        w1 == [w EXCEPT !.self.stats = Bump(@, "total_requests")]
        cached == cache_get(w.self.cache, clean, cache_key)
    IN  IF Truthy(cached)
        THEN [w |-> [w1 EXCEPT !.self.stats = Bump(@, "cache_hits")], ret |-> cached]
        ELSE IF w.self.offline_mode
        THEN OfflineBranch(w1, clean, source, target, cache_key,
                           OfflineTranslate(clean, source, target))
        ELSE IF ~w.self.model THEN [w |-> w1, ret |-> clean]
        ELSE Attempt(w1, clean, source, target, context, cache_key, max_retries, 0)

-----------------------------------------------------------------------------
(* utils/language.py: what auto_translate_entry uses of the detector *)

FRENCH_INDICATORS ==
    { "le", "la", "les", "un", "une", "des", "du", "de", "à", "au", "aux",
      "est", "sont", "être", "avoir", "faire", "pour", "dans", "sur", "avec",
      "commande", "facture", "livraison", "client", "fournisseur", "article",
      "paiement", "devis", "partenaire", "bon", "créer", "confirmer", "annuler",
      "veuillez", "montant", "total", "calculé", "automatiquement", "saisir",
      "commentaires", "nouvelle", "ici" }

ENGLISH_INDICATORS ==
    { "the", "a", "an", "is", "are", "be", "have", "do", "for", "in", "on", "with",
      "order", "invoice", "delivery", "customer", "supplier", "product", "payment",
      "quotation", "partner", "create", "confirm", "cancel", "please", "amount",
      "total", "calculated", "automatically", "enter", "comments", "new", "here" }

\* `word in text`
Contains(text, word) == \E i \in 1..Len(text) : StartsWithAt(text, i, word)

\* _heuristic_detect: the language, its confidence being 0.95 whenever there is one
HeuristicVerdict(text_lower) ==
    LET french_count == Cardinality({ word \in FRENCH_INDICATORS : Contains(text_lower, word) })
        english_count == Cardinality({ word \in ENGLISH_INDICATORS : Contains(text_lower, word) })
    IN  IF french_count > 0 /\ french_count > english_count THEN "fr"
        ELSE IF english_count > 0 /\ english_count > french_count THEN "en"
        ELSE None

\* the source texts of the entries of the model
EntryTexts == { "Customer", "Stock %s", "Client" }

\* the heuristic verdicts on the texts of the model, computed once
HeuristicVerdicts == [text \in EntryTexts |-> HeuristicVerdict(lower(text))]

_heuristic_detect(text) ==
    IF text \in EntryTexts THEN HeuristicVerdicts[text] ELSE HeuristicVerdict(lower(text))

\* detect_language: the heuristic verdict when there is one, else what the statistical
\* detectors (langid, googletrans, langdetect) make of the text: a code, None, or Raise
\* for an exception of theirs that no handler of language.py catches
detect_language(det, text) ==
    IF ~Truthy(text) \/ Strip(text) = "" THEN None
    ELSE IF _heuristic_detect(text) # None THEN _heuristic_detect(text)
    ELSE det

\* is_french_text; Raise when the detection raises
is_french_text(det, text) ==
    IF ~Truthy(text) \/ Strip(text) = "" THEN "no"
    ELSE IF detect_language(det, text) = Raise THEN Raise
    ELSE IF detect_language(det, text) = "fr" THEN "yes" ELSE "no"

-----------------------------------------------------------------------------
(* utils/language.py: the detection pipeline, stage by stage. Confidences are in
   hundredths: 0.7 is 70. *)

DefaultMinConfidence == 70

HeuristicConfidence == 95

Max(a, b) == IF a >= b THEN a ELSE b

Verdict(lang, conf) == [lang |-> lang, conf |-> conf]

\* what a library call does other than answer <<lang, confidence>>: it raises, or it
\* answers nothing
Raised == <<Raise>>

Nothing == <<>>

NoVerdict == Verdict(None, 0)

\* code.split("-")[0]
PrimaryTag(code) ==
    LET dash == FirstIn(code, 1, {"-"})
    IN  IF dash > Len(code) THEN code ELSE SubSeq(code, 1, dash - 1)

_normalize_lang_code(code) ==
    IF ~Truthy(code) THEN None
    ELSE IF lower(PrimaryTag(code)) = "zh" THEN "zh"
    ELSE lower(PrimaryTag(code))

\* len(text.split())
WordCount(text) ==
    Cardinality({ i \in 1..Len(text) :
                    /\ ~IsSpace(Char(text, i))
                    /\ (i = 1 \/ IsSpace(Char(text, i - 1))) })

\* sum(1 for word in indicators if word in text.lower())
Bias(indicators, text) ==
    Cardinality({ word \in indicators : Contains(lower(text), word) })

\* the texts given to detect_language in the model
DetectTexts == { "", "  ", "Customer", "Stock %s", "Stock %s %s", "Stock du jam" }

\* what the texts of the model hold, computed once
TextFacts ==
    [text \in DetectTexts |->
        [blank |-> ~Truthy(text) \/ Strip(text) = "",
         heuristic |-> HeuristicVerdict(lower(text)),
         french_bias |-> Bias(FRENCH_INDICATORS, text),
         english_bias |-> Bias(ENGLISH_INDICATORS, text),
         commande |-> Contains(lower(text), "commande"),
         words |-> WordCount(text)]]

\* _heuristic_detect with its confidence
HeuristicDetails(text) ==
    IF TextFacts[text].heuristic = None THEN NoVerdict
    ELSE Verdict(TextFacts[text].heuristic, HeuristicConfidence)

\* the reclassification of _detect_with_langid, applied to what classify() answered
LangidRomance(text, v) ==
    IF v.lang \in {"ca", "ro", "it", "es", "pt"} /\ TextFacts[text].french_bias >= 3
    THEN Verdict("fr", Max(v.conf, 82)) ELSE v

LangidScandinavian(text, v) ==
    IF v.lang \in {"da", "no", "sv"} /\ TextFacts[text].english_bias > 0
    THEN Verdict("en", Max(v.conf, 80)) ELSE v

LangidCommande(text, v) ==
    IF v.lang \in {"gl", "ca"} /\ TextFacts[text].commande
    THEN Verdict("fr", Max(v.conf, 80)) ELSE v

\* _detect_with_langid under lru_cache: `classified` is what classify() answers when the
\* text is not in the cache. Yields the verdict and the module state after the call.
_detect_with_langid(d, text, classified) ==
    IF text \in DOMAIN d.langid_cache THEN [verdict |-> d.langid_cache[text], d |-> d]
    ELSE LET verdict ==
                 IF TextFacts[text].blank THEN NoVerdict
                 ELSE LangidCommande(text,
                        LangidScandinavian(text,
                          LangidRomance(text,
                            Verdict(_normalize_lang_code(classified[1]), classified[2]))))
         IN  [verdict |-> verdict,
              d |-> [d EXCEPT !.langid_cache = Put(@, text, verdict)]]

\* _disable_google_detection without its first assignment: the flag stays as it was
_disable_google_detection_open(d) == [d EXCEPT !.singleton = FALSE]

_disable_google_detection(d) == [d EXCEPT !.disabled = TRUE, !.singleton = FALSE]

\* _is_google_detection_enabled: the answer and the module state after the call
_is_google_detection_enabled(d) ==
    IF d.disabled THEN [enabled |-> FALSE, d |-> d]
    ELSE IF lower(Strip(d.toggle)) \in {"0", "false", "off"}
         THEN [enabled |-> FALSE, d |-> [d EXCEPT !.disabled = TRUE]]
    ELSE IF ~d.installed THEN [enabled |-> FALSE, d |-> [d EXCEPT !.disabled = TRUE]]
    ELSE [enabled |-> TRUE, d |-> d]

\* _get_google_translator: `init_ok` is whether GoogleTranslator() returns rather than raises
_get_google_translator(d, init_ok) ==
    LET e == _is_google_detection_enabled(d)
    IN  IF ~e.enabled THEN [translator |-> FALSE, d |-> e.d]
        ELSE IF ~e.d.singleton
             THEN IF init_ok
                  THEN [translator |-> TRUE,
                        d |-> [e.d EXCEPT !.singleton = TRUE, !.constructed = @ + 1]]
                  ELSE [translator |-> FALSE,
                        d |-> _disable_google_detection([e.d EXCEPT !.constructed = @ + 1,
                                                                    !.failures = @ + 1])]
        ELSE [translator |-> TRUE, d |-> e.d]

\* _detect_with_google under lru_cache: `answer` is what translator.detect does when it
\* is called: Raised, Nothing for no detection, or <<lang, confidence>>
_detect_with_google(d, text, init_ok, answer) ==
    IF text \in DOMAIN d.google_cache THEN [verdict |-> d.google_cache[text], d |-> d]
    ELSE LET g == _get_google_translator(d, init_ok)
             called == ~TextFacts[text].blank /\ g.translator
             after == IF ~called THEN g.d
                      ELSE IF answer = Raised
                           THEN _disable_google_detection([g.d EXCEPT !.invoked = @ + 1,
                                                                      !.failures = @ + 1])
                      ELSE [g.d EXCEPT !.invoked = @ + 1]
             verdict == IF ~called \/ answer \in {Raised, Nothing} THEN NoVerdict
                        ELSE Verdict(_normalize_lang_code(answer[1]), answer[2])
         IN  [verdict |-> verdict,
              d |-> [after EXCEPT !.google_cache = Put(@, text, verdict)]]

\* the last stage of detect_language_details: `langs` is what detect_langs answers,
\* Raised for LangDetectException, else the first candidate <<lang, prob>>.
\* Yields whether the stage returns, and what.
LangdetectStage(text, heuristic, langs, min_confidence) ==
    IF TextFacts[text].words < 3 \/ langs = Raised
    THEN [returns |-> FALSE, verdict |-> NoVerdict]
    ELSE LET detected == _normalize_lang_code(langs[1])
             prob == langs[2]
         IN  [returns |-> TRUE,
              verdict |->
                  IF detected \in {"af", "nl", "no", "da", "sv"} THEN Verdict("fr", prob)
                  ELSE IF detected \in {"ca", "ro", "it", "es", "pt"} /\ heuristic.lang = "fr"
                       THEN Verdict("fr", Max(prob, heuristic.conf))
                  ELSE Verdict(detected, prob)]

\* `x or y` on language codes
Or(x, y) == IF Truthy(x) THEN x ELSE y

\* detect_language_details from its last stage on: `last` is what the stage gave
FromLangdetect(d, heuristic, byLangid, byGoogle, last) ==
    IF last.returns THEN [verdict |-> last.verdict, stage |-> "langdetect", d |-> d]
    ELSE IF Truthy(byLangid.lang) THEN [verdict |-> byLangid, stage |-> "fallback", d |-> d]
    ELSE [verdict |-> Verdict(Or(byGoogle.lang, heuristic.lang),
                              Max(byGoogle.conf, Max(heuristic.conf, byLangid.conf))),
          stage |-> "fallback", d |-> d]

\* detect_language_details from the Google stage on: `byGoogle` is what the stage gave
FromGoogle(text, min_confidence, env, heuristic, byLangid, byGoogle) ==
    IF Truthy(byGoogle.verdict.lang) /\ byGoogle.verdict.conf >= min_confidence
    THEN [verdict |-> byGoogle.verdict, stage |-> "google", d |-> byGoogle.d]
    ELSE IF Truthy(heuristic.lang)
    THEN [verdict |-> heuristic, stage |-> "heuristic", d |-> byGoogle.d]
    ELSE FromLangdetect(byGoogle.d, heuristic, byLangid, byGoogle.verdict,
                        LangdetectStage(text, heuristic, env.langdetect, min_confidence))

\* detect_language_details from the langid stage on: `byLangid` is what the stage gave
FromLangid(text, min_confidence, env, heuristic, byLangid) ==
    IF Truthy(byLangid.verdict.lang) /\ byLangid.verdict.conf >= min_confidence
    THEN [verdict |-> byLangid.verdict, stage |-> "langid", d |-> byLangid.d]
    ELSE FromGoogle(text, min_confidence, env, heuristic, byLangid.verdict,
                    _detect_with_google(byLangid.d, text, env.google.init_ok,
                                        env.google.answer))

\* detect_language_details: env holds what the three libraries answer when they are
\* asked. Yields the verdict, the stage that gave it and the module state after the call.
detect_language_details(d, text, min_confidence, env) ==
    IF TextFacts[text].blank THEN [verdict |-> NoVerdict, stage |-> "blank", d |-> d]
    ELSE IF Truthy(HeuristicDetails(text).lang)
            /\ HeuristicDetails(text).conf >= min_confidence
    THEN [verdict |-> HeuristicDetails(text), stage |-> "heuristic", d |-> d]
    ELSE FromLangid(text, min_confidence, env, HeuristicDetails(text),
                    _detect_with_langid(d, text, env.langid))

\* the two returns of detect_language: both give `lang`
ReturnLang(r, min_confidence) ==
    [lang |-> IF Truthy(r.verdict.lang) /\ r.verdict.conf >= min_confidence
              THEN r.verdict.lang ELSE r.verdict.lang,
     verdict |-> r.verdict, stage |-> r.stage, d |-> r.d]

\* detect_language on the pipeline
detect_language_code(d, text, min_confidence, env) ==
    ReturnLang(detect_language_details(d, text, min_confidence, env), min_confidence)

\* `==` on what detect_language gave
IsLang(r, lang) == [r EXCEPT !.lang = (r.lang = lang)]

\* is_french_text and is_english_text on the pipeline
is_language_text(d, text, lang, env) ==
    IF TextFacts[text].blank
    THEN [lang |-> FALSE, verdict |-> NoVerdict, stage |-> "blank", d |-> d]
    ELSE IsLang(detect_language_code(d, text, DefaultMinConfidence, env), lang)

-----------------------------------------------------------------------------
(* translator.py: Translator.auto_translate_entry and batch_translate *)

POEntry(msgid, msgstr) == [msgid |-> msgid, msgstr |-> msgstr]

\* what a call of auto_translate_entry leaves: the world, the entry, the value returned,
\* and whether the call raised instead of returning
Outcome(w, entry, ret, raised) == [w |-> w, entry |-> entry, ret |-> ret, raised |-> raised]

\* lines 609-615, the direction being resolved
TranslateEntryFrom(w, entry, msgid, from_lang, module) ==
    LET context == IF Truthy(module) THEN "Odoo module: " \o module ELSE "Odoo ERP"
        r == translate(w, msgid, from_lang, w.self.target_lang, context, DefaultMaxRetries)
    IN  IF Truthy(r.ret) /\ r.ret # msgid
        THEN Outcome(r.w, [entry EXCEPT !.msgstr = r.ret], TRUE, FALSE)
        ELSE Outcome(r.w, entry, FALSE, FALSE)

\* lines 587-607 with the detection ignored: always from the configured source
ResolveDirectionConfigured(w, entry, msgid, module, force, detected) ==
    TranslateEntryFrom(w, entry, msgid, w.self.source_lang, module)

\* lines 587-607, `detected` being what detect_language returned
ResolveDirection(w, entry, msgid, module, force, detected) ==
    IF detected = Raise THEN Outcome(w, entry, FALSE, TRUE)
    ELSE IF w.self.auto_detect /\ Truthy(detected) /\ detected = w.self.target_lang /\ ~force
    THEN Outcome(w, entry, FALSE, FALSE)
    ELSE IF w.self.auto_detect /\ Truthy(detected) /\ detected # w.self.target_lang
            /\ detected # w.self.source_lang
    THEN TranslateEntryFrom(w, entry, msgid, detected, module)
    ELSE TranslateEntryFrom(w, entry, msgid, w.self.source_lang, module)

auto_translate_entry(w, det, entry, module, force) ==
    IF ~Truthy(entry.msgid) \/ Strip(entry.msgid) = "" THEN Outcome(w, entry, FALSE, FALSE)
    ELSE IF Truthy(entry.msgstr) /\ entry.msgid # entry.msgstr /\ ~force
    THEN Outcome(w, entry, FALSE, FALSE)
    ELSE IF ~force /\ is_french_text(det, Strip(entry.msgid)) = Raise
    THEN Outcome(w, entry, FALSE, TRUE)
    ELSE IF ~force /\ is_french_text(det, Strip(entry.msgid)) = "yes" /\ w.self.target_lang = "fr"
    THEN Outcome(w, entry, FALSE, FALSE)
    ELSE ResolveDirection(w, entry, Strip(entry.msgid), module, force,
                          detect_language(det, Strip(entry.msgid)))

NoResults(n) == [total |-> n, translated |-> 0, skipped |-> 0, failed |-> 0]

\* the state of a batch_translate call: the world, the entries, the report, the indexes
\* of the entries attempted so far, and whether an exception left the loop
Batch(w, es, results, attempted, raised) ==
    [w |-> w, entries |-> es, results |-> results, attempted |-> attempted, raised |-> raised]

BatchCount(b, i, r, key) ==
    Batch(r.w, [b.entries EXCEPT ![i] = r.entry], Bump(b.results, key), Append(b.attempted, i), FALSE)

BatchEntryUncaught(b, det, i, module, force, r) ==
    IF r.raised THEN Batch(r.w, b.entries, b.results, Append(b.attempted, i), TRUE)
    ELSE BatchCount(b, i, r, IF r.ret THEN "translated" ELSE "skipped")

\* lines 624-631: one turn of the loop, r being what auto_translate_entry left
BatchEntry(b, det, i, module, force, r) ==
    BatchCount(b, i, r, IF r.raised THEN "failed" ELSE IF r.ret THEN "translated" ELSE "skipped")

RECURSIVE BatchLoop(_, _, _, _, _)
BatchLoop(b, det, i, module, force) ==
    IF i > Len(b.entries) \/ b.raised THEN b
    ELSE BatchLoop(BatchEntry(b, det, i, module, force,
                              auto_translate_entry(b.w, det, b.entries[i], module, force)),
                   det, i + 1, module, force)

\* Translator.batch_translate, without a progress callback
batch_translate(w, det, es, module, force) ==
    BatchLoop(Batch(w, es, NoResults(Len(es)), <<>>, FALSE), det, 1, module, force)

-----------------------------------------------------------------------------
(* The merge specification: catalogs fixed on disk, then any sequence of merge_files *)
(* and update_entry calls *)

\* renamed: the next merge_files call found the canonical set under other keys
Snapshot(paths, merged, e2m, m2e) ==
    [taken |-> TRUE, paths |-> paths, merged |-> merged, e2m |-> e2m, m2e |-> m2e, renamed |-> FALSE]

NoSnapshot ==
    [taken |-> FALSE, paths |-> <<>>, merged |-> EmptyMap, e2m |-> EmptyMap, m2e |-> EmptyMap,
     renamed |-> FALSE]

NoCall == [op |-> "none", msgid |-> None, new_msgid |-> None, new_msgstr |-> None, ret |-> FALSE]

Slice(s, lo, hi) == IF hi < lo THEN <<>> ELSE SubSeq(s, lo, hi)

\* catalogs holding at most MaxEntries entries together: a sequence of entries cut in
\* two for the first two paths; the third catalog is empty or does not parse
Catalogs ==
    { [p \in Paths |->
         IF p = PathOrder[1] THEN [parsed |-> TRUE, entries |-> Slice(x[1], 1, x[2])]
         ELSE IF p = PathOrder[2] THEN [parsed |-> TRUE, entries |-> Slice(x[1], x[2] + 1, Len(x[1]))]
         ELSE [parsed |-> x[3], entries |-> <<>>]] :
        x \in { y \in SeqsUpTo(EntryPool, MaxEntries) \X (0..MaxEntries) \X BOOLEAN :
                  y[2] <= Len(y[1]) } }

\* no catalogs and nothing merged: the merger of the specifications that leave it alone
IdleMerge ==
    /\ files = [p \in Paths |-> [parsed |-> TRUE, entries |-> <<>>]]
    /\ merged_entries = EmptyMap
    /\ entry_to_module = EmptyMap
    /\ module_to_entries = EmptyMap
    /\ msnap = NoSnapshot
    /\ mprev = NoSnapshot
    /\ mlast = NoCall
    /\ mcount = 0

\* no call of the offline engine
IdleOffline ==
    /\ otext = ""
    /\ opair = <<"en", "fr">>
    /\ oresult = Pending

\* the record of a Translator.translate call: its arguments, what it returned, and the
\* statistics, cache and provider invocations before it and after it
TCall(args, ret, before, after) ==
    [ done |-> TRUE, args |-> args, ret |-> ret,
      stats0 |-> before.self.stats, cache0 |-> before.self.cache, calls0 |-> before.provider.calls,
      stats1 |-> after.self.stats, cache1 |-> after.self.cache, calls1 |-> after.provider.calls ]

NoTCall ==
    [ done |-> FALSE, args |-> <<>>, ret |-> None, stats0 |-> NoStats, cache0 |-> EmptyMap,
      calls0 |-> 0, stats1 |-> NoStats, cache1 |-> EmptyMap, calls1 |-> 0 ]

\* the record of an auto_translate_entry call on entry number index
ECall(index, module, force, entry0, r, before) ==
    [ done |-> TRUE, index |-> index, module |-> module, force |-> force, entry0 |-> entry0,
      entry1 |-> r.entry, ret |-> r.ret, raised |-> r.raised, stats0 |-> before.self.stats,
      stats1 |-> r.w.self.stats, calls0 |-> before.provider.calls,
      calls1 |-> r.w.provider.calls ]

NoECall ==
    [ done |-> FALSE, index |-> 0, module |-> None, force |-> FALSE, entry0 |-> POEntry("", ""),
      entry1 |-> POEntry("", ""), ret |-> FALSE, raised |-> FALSE, stats0 |-> NoStats,
      stats1 |-> NoStats, calls0 |-> 0, calls1 |-> 0 ]

\* the record of a batch_translate call
BCall(module, force, entries0, b, before) ==
    [ done |-> TRUE, module |-> module, force |-> force, entries0 |-> entries0,
      results |-> b.results, attempted |-> b.attempted, raised |-> b.raised,
      stats0 |-> before.self.stats, stats1 |-> b.w.self.stats,
      calls0 |-> before.provider.calls, calls1 |-> b.w.provider.calls ]

NoBCall ==
    [ done |-> FALSE, module |-> None, force |-> FALSE, entries0 |-> <<>>,
      results |-> NoResults(0), attempted |-> <<>>, raised |-> FALSE, stats0 |-> NoStats,
      stats1 |-> NoStats, calls0 |-> 0, calls1 |-> 0 ]

\* a Translator nobody calls
IdleTranslate ==
    /\ translator = NewTranslator(TRUE, FALSE)
    /\ provider = [script |-> <<Raise>>, calls |-> 0]
    /\ now = rate_limit
    /\ tprev = NoTCall
    /\ tlast = NoTCall
    /\ tcount = 0
    /\ detector = None
    /\ po_entries = <<>>
    /\ elast = NoECall
    /\ blast = NoBCall

\* ThreadPoolExecutor(max_workers=4)
max_workers == 4

Workers == 1..max_workers

IdleWorker == [pc |-> "idle", task |-> 0, elapsed |-> 0, wake |-> 0, loaded |-> 0]

\* the worker once a local variable is dead
Forget(worker, field) == [worker EXCEPT ![field] = 0]

\* a pool with nothing to do
IdleRate ==
    /\ pool = [k \in Workers |-> IdleWorker]
    /\ pending = 0
    /\ call_times = <<>>
    /\ translating = FALSE

\* a thread outside TranslationCache.set
IdleWriter == [pc |-> "idle", buffer |-> ""]

\* no cache file yet and nobody writing
IdleCache ==
    /\ writers = [k \in Workers |-> IdleWriter]
    /\ cache_order = <<>>
    /\ cache_file = None
    /\ written = <<>>

\* the import of line 20 succeeded
IdleConfig == AVAILABLE = TRUE

\* utils/language.py as imported: nothing detected, Google detection not yet tried
FreshDetection ==
    [disabled |-> FALSE, singleton |-> FALSE, toggle |-> "1", installed |-> TRUE,
     langid_cache |-> EmptyMap, google_cache |-> EmptyMap,
     constructed |-> 0, invoked |-> 0, failures |-> 0]

NoDCall == [op |-> None]

IdleDetect ==
    /\ detection = FreshDetection
    /\ dlast = NoDCall
    /\ dcount = 0

InitMerge ==
    /\ IdleOffline
    /\ IdleTranslate
    /\ IdleRate
    /\ IdleCache
    /\ IdleDetect
    /\ IdleConfig
    /\ files \in Catalogs
    /\ merged_entries = EmptyMap
    /\ entry_to_module = EmptyMap
    /\ module_to_entries = EmptyMap
    /\ msnap = NoSnapshot
    /\ mprev = NoSnapshot
    /\ mlast = NoCall
    /\ mcount = 0

Merge(filepaths) ==
    \E r \in {merge_files(merged_entries, <<entry_to_module, module_to_entries>>, filepaths)} :
        /\ merged_entries' = r.merged
        /\ entry_to_module' = r.ix[1]
        /\ module_to_entries' = r.ix[2]
        /\ mprev' = IF msnap.taken /\ msnap.paths = filepaths
                    THEN [msnap EXCEPT !.renamed = (DOMAIN merged_entries # DOMAIN msnap.merged)]
                    ELSE NoSnapshot
        /\ msnap' = Snapshot(filepaths, r.merged, r.ix[1], r.ix[2])
        /\ mlast' = [NoCall EXCEPT !.op = "merge"]
        /\ mcount' = 0
        /\ UNCHANGED files

UpdateEntry(msgid, new_msgid, new_msgstr) ==
    \E r \in {update_entry(merged_entries, <<entry_to_module, module_to_entries>>,
                          msgid, new_msgid, new_msgstr)} :
        /\ msnap.taken
        /\ merged_entries' = r.merged
        /\ entry_to_module' = r.ix[1]
        /\ module_to_entries' = r.ix[2]
        /\ mlast' = [op |-> "update", msgid |-> msgid, new_msgid |-> new_msgid,
                     new_msgstr |-> new_msgstr, ret |-> r.ret]
        /\ mcount' = mcount + 1
        /\ UNCHANGED <<files, msnap, mprev>>

NextMerge ==
    \/ \E filepaths \in PathLists : Merge(filepaths) /\ UNCHANGED notMerge
    \/ \E a \in UpdateArgs : mcount = 0 /\ UpdateEntry(a[1], a[2], a[3]) /\ UNCHANGED notMerge

SpecMerge == InitMerge /\ [][NextMerge]_vars

-----------------------------------------------------------------------------
(* Merge policy *)

\* the places <<i, j>> of the entries a merge of `paths` reads: catalog i of the list,
\* entry j of it, not obsolete, with a source text that survives cleaning
Places(paths) ==
    { pl \in (1..Len(paths)) \X (1..MaxEntries + 2) :
        /\ files[paths[pl[1]]].parsed
        /\ pl[2] <= Len(files[paths[pl[1]]].entries)
        /\ ~files[paths[pl[1]]].entries[pl[2]].obsolete
        /\ clean_text(files[paths[pl[1]]].entries[pl[2]].msgid) # "" }

EntryAt(paths, pl) == files[paths[pl[1]]].entries[pl[2]]

Before(p, q) == p[1] < q[1] \/ (p[1] = q[1] /\ p[2] < q[2])

\* the translation the win policy keeps for source text k
PolicyTranslation(paths, k) ==
    LET occ == { pl \in Places(paths) : clean_text(EntryAt(paths, pl).msgid) = k }
        full == { pl \in occ : clean_text(EntryAt(paths, pl).msgstr) # "" }
    IN  IF full = {} THEN ""
        ELSE clean_text(EntryAt(paths, CHOOSE pl \in full : \A q \in full : q = pl \/ Before(pl, q)).msgstr)

\* C1: after merge(paths) the canonical set holds exactly one entry per distinct source
\* text read, stored under its source text, and its translation follows the win policy:
\* the first non-empty translation in path order then file order, empty when there is none
C1_MergeWinPolicy ==
    mlast.op = "merge" =>
        /\ DOMAIN merged_entries =
                { clean_text(EntryAt(msnap.paths, pl).msgid) : pl \in Places(msnap.paths) }
        /\ \A k \in DOMAIN merged_entries :
                /\ merged_entries[k].msgid = k
                /\ merged_entries[k].msgstr = PolicyTranslation(msnap.paths, k)

\* catalog A with "Invoice" -> "" merged before catalog B with "Invoice" -> "Facture"
C1_Witness ==
    /\ mlast.op = "merge"
    /\ msnap.paths = <<PathOrder[1], PathOrder[2]>>
    /\ files[PathOrder[1]].entries = <<Entry("Invoice", "", FALSE)>>
    /\ files[PathOrder[2]].entries = <<Entry("Invoice", "Facture", FALSE)>>
    /\ DOMAIN merged_entries = {"Invoice"}
    /\ merged_entries["Invoice"].msgstr = "Facture"

\* C2: a merge of the list the previous merge was given leaves the canonical set with
\* the same keys, the same translations and the same module for every key, whatever
\* update_entry did in between
C2_MergeIdempotent ==
    (mlast.op = "merge" /\ mprev.taken) =>
        /\ merged_entries = mprev.merged
        /\ \A k \in DOMAIN merged_entries :
                get_module(entry_to_module, k) = get_module(mprev.e2m, k)

\* a second merge of the same list after an update_entry call that renamed an entry
C2_Witness ==
    /\ mlast.op = "merge"
    /\ mprev.taken
    /\ mprev.renamed
    /\ Cardinality(DOMAIN merged_entries) = 2

\* the module of the last catalog of `paths` that holds source text k
LastModule(paths, k) ==
    LET occ == { pl \in Places(paths) : clean_text(EntryAt(paths, pl).msgid) = k }
    IN  ModuleNames[paths[CHOOSE i \in { pl[1] : pl \in occ } : \A pl \in occ : pl[1] <= i]]

\* C15: after merge(paths) the index associates the source text of every canonical entry
\* with the module of the last catalog of the list that holds it, and lists it under that
\* module and under no other
C15_OneModulePerEntry ==
    mlast.op = "merge" =>
        \A k \in DOMAIN merged_entries :
            /\ k \in DOMAIN entry_to_module
            /\ entry_to_module[k] = LastModule(msnap.paths, k)
            /\ \A m \in DOMAIN module_to_entries :
                    InSeq(k, module_to_entries[m]) <=> m = LastModule(msnap.paths, k)

\* the update_entry call just made renamed an entry of the canonical set
Renamed ==
    /\ mlast.op = "update"
    /\ mlast.msgid \in DOMAIN msnap.merged
    /\ mlast.new_msgid # None
    /\ mlast.new_msgid # mlast.msgid

\* the update_entry call just made named an entry of the canonical set and no new key
Rewritten ==
    /\ mlast.op = "update"
    /\ mlast.msgid \in DOMAIN msnap.merged
    /\ mlast.new_msgid = None \/ mlast.new_msgid = mlast.msgid

\* C16, without the index forgetting the old key: update_entry on an existing key returns
\* true; a rename stores the entry under the new key only, with the new source text and
\* the module the old key had; without a rename the translation is set and keys and
\* index stay as they were
C16_RenameMoves ==
    /\ Renamed =>
        /\ mlast.ret
        /\ mlast.new_msgid \in DOMAIN merged_entries
        /\ mlast.msgid \notin DOMAIN merged_entries
        /\ merged_entries[mlast.new_msgid].msgid = mlast.new_msgid
        /\ get_module(entry_to_module, mlast.new_msgid) = get_module(msnap.e2m, mlast.msgid)
    /\ Rewritten =>
        /\ mlast.ret
        /\ DOMAIN merged_entries = DOMAIN msnap.merged
        /\ mlast.new_msgstr # None => merged_entries[mlast.msgid].msgstr = mlast.new_msgstr
        /\ merged_entries[mlast.msgid].msgid = mlast.msgid
        /\ entry_to_module = msnap.e2m
        /\ module_to_entries = msnap.m2e

\* C16: as above, and after a rename the index no longer holds the old key
C16_RenameRemaps ==
    /\ C16_RenameMoves
    /\ Renamed =>
        /\ mlast.msgid \notin DOMAIN entry_to_module
        /\ \A m \in DOMAIN module_to_entries : ~InSeq(mlast.msgid, module_to_entries[m])

\* C17: update_entry called with a source text that is not a key of the canonical set
\* returns false and leaves the canonical set, its entries and the index as they were
C17_UnknownKeyNoChange ==
    (mlast.op = "update" /\ mlast.msgid \notin DOMAIN msnap.merged) =>
        /\ ~mlast.ret
        /\ merged_entries = msnap.merged
        /\ entry_to_module = msnap.e2m
        /\ module_to_entries = msnap.m2e

\* update_entry("Bill", new_msgid="Invoice") on a canonical set that holds "Invoice" and
\* "Order" and not "Bill"
C17_Witness ==
    /\ mlast.op = "update"
    /\ mlast.msgid = "Bill"
    /\ mlast.new_msgid = "Invoice"
    /\ DOMAIN msnap.merged = {"Invoice", "Order"}
    /\ ~mlast.ret

\* C28: after any sequence of merge and update_entry calls the module index agrees with
\* the canonical set: the keys that have a module are the keys of the canonical set, and
\* a key is listed under a module exactly when that module is the one the key has
C28_IndexConsistent ==
    /\ DOMAIN entry_to_module = DOMAIN merged_entries
    /\ \A m \in DOMAIN module_to_entries :
            \A i \in 1..Len(module_to_entries[m]) :
                /\ module_to_entries[m][i] \in DOMAIN entry_to_module
                /\ entry_to_module[module_to_entries[m][i]] = m
    /\ \A k \in DOMAIN entry_to_module :
            /\ entry_to_module[k] \in DOMAIN module_to_entries
            /\ InSeq(k, module_to_entries[entry_to_module[k]])

\* C29: update_entry never loses an entry: after the call the canonical set has as many
\* entries as before it and every entry is stored under its own source text; a rename
\* to a key that another entry holds does not replace that entry
C29_UpdateKeepsEntries ==
    mlast.op = "update" =>
        /\ Cardinality(DOMAIN merged_entries) = Cardinality(DOMAIN msnap.merged)
        /\ \A k \in DOMAIN merged_entries : merged_entries[k].msgid = k
        /\ (Renamed /\ mlast.new_msgid \in DOMAIN msnap.merged) =>
                /\ mlast.new_msgid \in DOMAIN merged_entries
                /\ merged_entries[mlast.new_msgid] = msnap.merged[mlast.new_msgid]

-----------------------------------------------------------------------------
(* The offline engine specification: one call of translate on a text put together *)
(* from at most MaxPieces pieces *)

MaxPieces == 2

Pieces ==
    { "%s", "%(count)s", "{a  b}", "{{name}}", "${ref}", "{order}", "__PH_0__", " ",
      "Create", "new invoice" }

RECURSIVE Concat(_)
Concat(ps) == IF ps = <<>> THEN "" ELSE Head(ps) \o Concat(Tail(ps))

OfflineTexts == { Concat(ps) : ps \in SeqsUpTo(Pieces, MaxPieces) }

LangPairs == { <<"en", "fr">>, <<"fr", "en">>, <<"en", "es">>, <<"es", "en">>, <<"en", "de">> }

\* the phrase and word rules of the glossary of a pair
Terms(pr) ==
    LET data == OFFLINE_DICTIONARY[PairKey(pr[1], pr[2])]
    IN  { data.phrases[i] : i \in 1..Len(data.phrases) } \cup { data.words[i] : i \in 1..Len(data.words) }

CaseForms == {"upper", "title", "lower", "first"}

\* s with its first letter capitalised and the rest as it is
CapitalizeFirst(s) == UpperC(Char(s, 1)) \o SubSeq(s, 2, Len(s))

\* a term of the glossary, all of them lowercase there, written in one of the case forms
InForm(term, form) ==
    CASE form = "upper" -> upper(term)
      [] form = "title" -> title(term)
      [] form = "lower" -> lower(term)
      [] form = "first" -> CapitalizeFirst(term)

\* every term of every glossary in every case form
TermCalls ==
    UNION { { [pair |-> pr, replacement |-> rule[2], form |-> form, text |-> InForm(rule[1], form)] :
                rule \in Terms(pr), form \in CaseForms } :
            pr \in { lp \in LangPairs : supports_pair(lp[1], lp[2]) } }

InitOffline ==
    /\ IdleMerge
    /\ IdleTranslate
    /\ IdleRate
    /\ IdleCache
    /\ IdleDetect
    /\ IdleConfig
    /\ \E call \in (OfflineTexts \X LangPairs) \cup { <<c.text, c.pair>> : c \in TermCalls } :
            /\ otext = call[1]
            /\ opair = call[2]
    /\ oresult = Pending

OfflineCall ==
    /\ oresult = Pending
    /\ oresult' = OfflineTranslate(otext, opair[1], opair[2])
    /\ UNCHANGED <<otext, opair>>

NextOffline == OfflineCall /\ UNCHANGED notOffline

SpecOffline == InitOffline /\ [][NextOffline]_vars

\* re.findall(PLACEHOLDER_PATTERN, s): the placeholder tokens of s, in order
RECURSIVE TokensFrom(_, _, _)
TokensFrom(s, i, found) ==
    IF i > Len(s) THEN found
    ELSE IF PlaceholderAt(s, i) > 0
         THEN TokensFrom(s, i + PlaceholderAt(s, i), Append(found, SubSeq(s, i, i + PlaceholderAt(s, i) - 1)))
         ELSE TokensFrom(s, i + 1, found)

Tokens(s) == TokensFrom(s, 1, <<>>)

Count(seq, x) == Cardinality({ i \in 1..Len(seq) : seq[i] = x })

SameMultiset(a, b) ==
    /\ Len(a) = Len(b)
    /\ \A i \in 1..Len(a) : Count(a, a[i]) = Count(b, a[i])

\* C3: for every text and every supported pair, the placeholder tokens of what the
\* offline engine returns are, as a multiset, the placeholder tokens of the text
C3_PlaceholdersKept ==
    (oresult # Pending /\ oresult # None) => SameMultiset(Tokens(otext), Tokens(oresult))

\* C19: the offline engine returns None for every text when the pair has no glossary,
\* and a string when the pair has one
C19_NoneIffNoGlossary ==
    oresult # Pending => (oresult = None <=> ~supports_pair(opair[1], opair[2]))

\* C20: a glossary term written all-uppercase is translated to an all-uppercase text, in
\* title case to a title-case text, all-lowercase to a lowercase text, and with only its
\* first letter capitalised to its replacement with only the first letter capitalised
C20_CasePreserved ==
    oresult # Pending =>
        \A c \in TermCalls :
            (c.text = otext /\ c.pair = opair) =>
                CASE c.form = "upper" -> isupper(oresult)
                  [] c.form = "title" -> istitle(oresult)
                  [] c.form = "lower" -> islower(oresult)
                  [] c.form = "first" -> oresult = CapitalizeFirst(c.replacement)

-----------------------------------------------------------------------------
(* The translate specification: a Translator constructed in one of its modes, a *)
(* provider with a fixed behaviour, then at most MaxCalls calls of translate *)

MaxCalls == 3

\* what the provider answers, request after request, the script starting over at its end
Scripts ==
    { <<"Commande %s">>, <<"'Commande %s'\nnote">>, <<"Commande">>, <<"">>, <<Raise>>,
      <<"Commande", "Commande %s">>, <<Raise, "Commande %s">>, <<"Commande %s\nvoir {x}">> }

\* <<text, from_lang, to_lang, context, max_retries>>
TranslateArgs ==
    { <<" Order %s", None, None, None, DefaultMaxRetries>>,
      <<"Order %s", "en", "fr", None, 0>>,
      <<" Order %s", "en", "de", "sale", DefaultMaxRetries>>,
      <<"Order %s", "zz", "fr", "sale", DefaultMaxRetries>>,
      <<" ", None, None, None, DefaultMaxRetries>>,
      <<"", None, None, None, DefaultMaxRetries>>,
      <<"", "en", "de", None, DefaultMaxRetries>>,
      <<"Commande", "en", "fr", None, 2>> }

\* offline (the environment's toggle), online with a model, online without one
Modes == { NewTranslator(TRUE, FALSE), NewTranslator(FALSE, TRUE), NewTranslator(FALSE, FALSE) }

InitTranslate ==
    /\ IdleMerge
    /\ IdleOffline
    /\ IdleRate
    /\ IdleCache
    /\ IdleDetect
    /\ IdleConfig
    /\ translator \in Modes
    /\ provider \in { [script |-> s, calls |-> 0] : s \in Scripts }
    /\ now = rate_limit
    /\ tprev = NoTCall
    /\ tlast = NoTCall
    /\ tcount = 0
    /\ detector = None
    /\ po_entries = <<>>
    /\ elast = NoECall
    /\ blast = NoBCall

Translate(args) ==
    /\ tcount < MaxCalls
    /\ \E r \in { translate(World(translator, provider, now), args[1], args[2], args[3], args[4], args[5]) } :
        /\ translator' = r.w.self
        /\ provider' = r.w.provider
        /\ now' = r.w.now
        /\ tlast' = TCall(args, r.ret, World(translator, provider, now), r.w)
    /\ tprev' = tlast
    /\ tcount' = tcount + 1
    /\ UNCHANGED <<detector, po_entries, elast, blast>>

NextTranslate == \E args \in TranslateArgs : Translate(args) /\ UNCHANGED notTranslate

SpecTranslate == InitTranslate /\ [][NextTranslate]_vars

\* the languages a call with arguments args resolves to
SourceOf(args) == IF Truthy(args[2]) THEN args[2] ELSE translator.source_lang

TargetOf(args) == IF Truthy(args[3]) THEN args[3] ELSE translator.target_lang

\* the cache key of a call with arguments args
ArgsKey(args) ==
    CacheKey(sanitize_text(args[1]), SourceOf(args) \o "→" \o TargetOf(args) \o "|" \o OrEmpty(args[4]))

\* the record the cache holds for a key, None when it holds none
Record(cache, key) == IF key \in DOMAIN cache THEN cache[key] ELSE None

CacheHit(call) == call.stats1.cache_hits = call.stats0.cache_hits + 1

NoProviderCall(call) == call.calls1 = call.calls0 /\ call.stats1.api_calls = call.stats0.api_calls

Twice == tprev.done /\ tlast.done /\ tlast.args = tprev.args

\* C4 as stated: whatever the text and the mode, the second of two identical calls in a
\* row increments cache_hits by one and issues no provider call
C4_SecondCallHits == Twice => (CacheHit(tlast) /\ NoProviderCall(tlast))

\* C4: when the text is not empty and the cache holds a non-empty record for the
\* arguments after the first of two identical calls in a row, the second call increments
\* cache_hits by one, issues no provider call and returns the record; every offline call
\* on a text that is not blank leaves such a record, and so does every online call that
\* returns a provider response; a call on the empty text counts nothing and calls nobody
C4_StoredCallHits ==
    /\ (Twice /\ tlast.args[1] # "" /\ Truthy(Record(tprev.cache1, ArgsKey(tprev.args)))) =>
            /\ CacheHit(tlast)
            /\ NoProviderCall(tlast)
            /\ tlast.ret = Record(tprev.cache1, ArgsKey(tprev.args))
    /\ (tlast.done /\ translator.offline_mode /\ Strip(OrEmpty(tlast.args[1])) # "") =>
            Truthy(Record(tlast.cache1, ArgsKey(tlast.args)))
    /\ (tlast.done /\ tlast.calls1 > tlast.calls0 /\ tlast.ret # sanitize_text(tlast.args[1])) =>
            Record(tlast.cache1, ArgsKey(tlast.args)) = tlast.ret
    /\ (tlast.done /\ tlast.args[1] = "") =>
            (tlast.stats1 = tlast.stats0 /\ NoProviderCall(tlast) /\ tlast.ret = "")

\* online, the first call being answered by the provider and the second by the cache
C4_Witness ==
    /\ Twice
    /\ tlast.args[1] = " Order %s"
    /\ translator.model
    /\ tprev.calls1 = 1
    /\ tprev.ret = "Commande %s"
    /\ tlast.ret = "Commande %s"
    /\ CacheHit(tlast)
    /\ provider.calls = 1

\* an offline call for a pair without glossary, nothing being cached for its arguments
UnsupportedOffline ==
    /\ tlast.done
    /\ translator.offline_mode
    /\ ~supports_pair(SourceOf(tlast.args), TargetOf(tlast.args))
    /\ ArgsKey(tlast.args) \notin DOMAIN tlast.cache0

CountedOffline(call) ==
    /\ call.stats1.offline_requests = call.stats0.offline_requests + 1
    /\ call.stats1.api_calls = 0
    /\ Record(call.cache1, ArgsKey(call.args)) = call.ret

AnswerAt(k) == provider.script[((k - 1) % Len(provider.script)) + 1]

\* an online call all of whose attempts failed or were answered by an invalid response
AllFailed(call) ==
    /\ call.done
    /\ call.stats1.api_calls > call.stats0.api_calls
    /\ \A k \in (call.calls0 + 1)..call.calls1 :
            \/ AnswerAt(k) = Raise
            \/ ~_validate_translation(sanitize_text(call.args[1]), ResponseText(AnswerAt(k)))

AtMostRetries(call) == call.calls1 - call.calls0 <= call.args[5] + 1

TokenSet(s) == { Tokens(s)[i] : i \in 1..Len(Tokens(s)) }

\* a text that is not blank and holds the placeholder tokens of src, no more and no less
PassesValidation(src, text) == Strip(text) # "" /\ TokenSet(text) = TokenSet(src)

\* a call that reached the provider, and the text it asked the provider to translate
OnlineCall(call) == call.done /\ call.calls1 > call.calls0

Clean(call) == sanitize_text(call.args[1])

\* the keys whose record the call wrote
WrittenBy(call) == { k \in DOMAIN call.cache1 : Record(call.cache0, k) # call.cache1[k] }

\* the call returned `translation` as the answer of the provider and stored it
Accepted(call, translation) ==
    /\ call.ret = translation
    /\ Record(call.cache1, ArgsKey(call.args)) = translation

\* the call returned the text untranslated and stored nothing
Rejected(call) == call.ret = Clean(call) /\ call.cache1 = call.cache0

\* every record the call wrote is one for its own arguments that passes validation
WritesValid(call) ==
    \A k \in WrittenBy(call) :
        k = ArgsKey(call.args) /\ PassesValidation(Clean(call), call.cache1[k])

\* C23 as stated: the response of the provider is accepted, returned and stored, only if
\* its placeholder tokens are those of the source text; a response with other
\* placeholders or an empty one is neither returned nor stored
C23_ResponseValidated ==
    OnlineCall(tlast) =>
        /\ WritesValid(tlast)
        /\ IF /\ AnswerAt(tlast.calls1) # Raise
              /\ PassesValidation(Clean(tlast), AnswerAt(tlast.calls1))
           THEN Accepted(tlast, ResponseText(AnswerAt(tlast.calls1)))
           ELSE Rejected(tlast)

\* C23: what is validated, returned and stored is the first line of the response,
\* stripped of the whitespace and the quotes around the response: it is accepted only if
\* it is not blank and its placeholder tokens are those of the source text, else it is
\* neither returned nor stored; every record written passes validation
C23_KeptTextValidated ==
    OnlineCall(tlast) =>
        /\ WritesValid(tlast)
        /\ IF /\ AnswerAt(tlast.calls1) # Raise
              /\ PassesValidation(Clean(tlast), ResponseText(AnswerAt(tlast.calls1)))
           THEN Accepted(tlast, ResponseText(AnswerAt(tlast.calls1)))
           ELSE Rejected(tlast)

\* a response without the placeholder is refused and the next one, with it, accepted
C23_Witness ==
    /\ OnlineCall(tlast)
    /\ tlast.calls1 = tlast.calls0 + 2
    /\ AnswerAt(tlast.calls0 + 1) = "Commande"
    /\ Clean(tlast) = "Order %s"
    /\ Accepted(tlast, "Commande %s")
    /\ WrittenBy(tlast) = { ArgsKey(tlast.args) }

-----------------------------------------------------------------------------
(* The entry specification: a Translator in one of its modes, a provider and a *)
(* detector with fixed behaviours, a list of at most MaxBatch entries; then at most *)
(* one call of auto_translate_entry, and at most one call of batch_translate *)

MaxBatch == 2

EntryPool2 ==
    { POEntry("Customer", ""), POEntry("Customer", "Client"), POEntry("Stock %s", ""),
      POEntry("Client", ""), POEntry(" ", "") }

\* the provider's behaviours: a valid answer for a text without placeholder, an empty
\* answer, an exception
EntryScripts == { <<"Client">>, <<"">>, <<Raise>> }

\* what the statistical detectors say of a text the heuristics leave open
Verdicts == { "de", None, Raise }

InitEntry ==
    /\ IdleMerge
    /\ IdleOffline
    /\ IdleRate
    /\ IdleCache
    /\ IdleDetect
    /\ IdleConfig
    /\ translator \in Modes
    /\ provider \in { [script |-> s, calls |-> 0] : s \in EntryScripts }
    /\ translator.model \/ provider.script = <<Raise>>
    /\ now = rate_limit
    /\ tprev = NoTCall
    /\ tlast = NoTCall
    /\ tcount = 0
    /\ detector \in Verdicts
    /\ po_entries \in SeqsUpTo(EntryPool2, MaxBatch)
    /\ elast = NoECall
    /\ blast = NoBCall

TranslateEntry(i, module, force) ==
    /\ ~elast.done
    /\ ~blast.done
    /\ i \in 1..Len(po_entries)
    /\ \E r \in { auto_translate_entry(World(translator, provider, now), detector, po_entries[i], module, force) } :
        /\ translator' = r.w.self
        /\ provider' = r.w.provider
        /\ now' = r.w.now
        /\ po_entries' = [po_entries EXCEPT ![i] = r.entry]
        /\ elast' = ECall(i, module, force, po_entries[i], r, World(translator, provider, now))
    /\ tcount' = tcount + 1
    /\ UNCHANGED <<tprev, tlast, detector, blast>>

BatchTranslate(module, force) ==
    /\ ~blast.done
    /\ \E b \in { batch_translate(World(translator, provider, now), detector, po_entries, module, force) } :
        /\ translator' = b.w.self
        /\ provider' = b.w.provider
        /\ now' = b.w.now
        /\ po_entries' = b.entries
        /\ blast' = BCall(module, force, po_entries, b, World(translator, provider, now))
    /\ tcount' = tcount + 1
    /\ UNCHANGED <<tprev, tlast, detector, elast>>

NextEntry ==
    \/ \E i \in 1..MaxBatch, force \in BOOLEAN : TranslateEntry(i, None, force) /\ UNCHANGED notTranslate
    \/ \E force \in BOOLEAN : BatchTranslate("sale", force) /\ UNCHANGED notTranslate

SpecEntry == InitEntry /\ [][NextEntry]_vars

\* C6: a call of translate_entry returns true if and only if the translation of the
\* entry after the call differs from its translation before the call
C6_TrueIffChanged ==
    (elast.done /\ ~elast.raised) => (elast.ret <=> elast.entry1.msgstr # elast.entry0.msgstr)

\* whether processing the entry raises: the detection it makes fails
Raises(entry, force) ==
    /\ Strip(entry.msgid) # ""
    /\ entry.msgstr = "" \/ entry.msgstr = entry.msgid \/ force
    /\ detect_language(detector, Strip(entry.msgid)) = Raise

\* C7: the report of translate_batch on N entries has total = N and translated +
\* skipped + failed = N, every entry is attempted exactly once, in order, and the entries
\* counted as failed are those whose processing raised
C7_BatchReportComplete ==
    blast.done =>
        /\ blast.results.total = Len(blast.entries0)
        /\ blast.results.translated + blast.results.skipped + blast.results.failed = Len(blast.entries0)
        /\ blast.attempted = [i \in 1..Len(blast.entries0) |-> i]
        /\ ~blast.raised
        /\ blast.results.failed =
                Cardinality({ i \in 1..Len(blast.entries0) : Raises(blast.entries0[i], blast.force) })
        /\ Len(po_entries) = Len(blast.entries0)

\* a batch of two entries: the detection of the first raises, the second is translated
C7_Witness ==
    /\ blast.done
    /\ Len(blast.entries0) = 2
    /\ blast.entries0[1].msgid = "Stock %s"
    /\ detector = Raise
    /\ blast.results.failed = 1
    /\ blast.results.translated = 1
    /\ po_entries[2] = POEntry("Customer", "Client")

\* C9: a batch in which an online translation was attempted, the provider answering
\* every request with an exception or an invalid response, has incremented the errors
\* counter and counts at least one entry as failed
C9_FailuresCounted ==
    (blast.done /\ blast.stats1.api_calls > blast.stats0.api_calls
        /\ provider.script \in { <<"">>, <<Raise>> }) =>
            /\ blast.stats1.errors > blast.stats0.errors
            /\ blast.results.failed >= 1

-----------------------------------------------------------------------------
(* The pool specification: the worker threads of start_translation translating at most *)
(* MaxTasks entries online through one Translator, step by step, the clock running up *)
(* to MaxTime *)

MaxTasks == 2

MaxTime == 4

PoolEntries ==
    << POEntry("Customer", ""), POEntry("Partner", ""), POEntry("Payment", ""),
       POEntry("Quotation", ""), POEntry("Supplier", "") >>

\* the context auto_translate_entry gives for the module of an entry no catalog indexed
PoolContext == "Odoo module: unknown"

InitRate ==
    /\ IdleMerge
    /\ IdleOffline
    /\ translator = NewTranslator(FALSE, TRUE)
    /\ provider = [script |-> <<"Client">>, calls |-> 0]
    /\ now = rate_limit
    /\ tprev = NoTCall
    /\ tlast = NoTCall
    /\ tcount = 0
    /\ detector = None
    /\ po_entries \in { SubSeq(PoolEntries, 1, n) : n \in 1..MaxTasks }
    /\ elast = NoECall
    /\ blast = NoBCall
    /\ pool = [k \in Workers |-> IdleWorker]
    /\ pending = Len(po_entries)
    /\ call_times = <<>>
    /\ translating = TRUE
    /\ IdleCache
    /\ IdleDetect
    /\ IdleConfig

\* a free worker, the first of them, takes the next entry submitted: translate_entry
\* polls the flag and returns False when it is down; otherwise it runs
\* auto_translate_entry and translate up to the first attempt: the request is counted and
\* the cache has no record
Take(k) ==
    /\ pool[k].pc = "idle"
    /\ \A j \in 1..(k - 1) : pool[j].pc # "idle"
    /\ pending > 0
    /\ pending' = pending - 1
    /\ IF translating
       THEN /\ pool' = [pool EXCEPT ![k] = [IdleWorker EXCEPT !.pc = "rl_read",
                                                          !.task = Len(po_entries) - pending + 1]]
            /\ translator' = [translator EXCEPT !.stats = Bump(@, "total_requests")]
       ELSE UNCHANGED <<pool, translator>>
    /\ UNCHANGED <<provider, now, po_entries, call_times, translating>>

\* self.translating = False while the batch is running
Cancel ==
    /\ translating
    /\ translating' = FALSE
    /\ UNCHANGED <<translator, provider, now, po_entries, pool, pending, call_times>>

\* _rate_limit, line 441: elapsed = time.time() - self.last_request
RateRead(k) ==
    /\ pool[k].pc = "rl_read"
    /\ pool' = [pool EXCEPT ![k].elapsed = now - translator.last_request,
                            ![k].wake = now + rate_limit - (now - translator.last_request),
                            ![k].pc = IF now - translator.last_request < rate_limit
                                      THEN "rl_sleep" ELSE "rl_store"]
    /\ UNCHANGED <<translator, provider, now, po_entries, pending, call_times, translating>>

\* lines 442-443: time.sleep(self.rate_limit - elapsed) returns
RateWake(k) ==
    /\ pool[k].pc = "rl_sleep"
    /\ now >= pool[k].wake
    /\ pool' = [pool EXCEPT ![k] = [Forget(Forget(@, "elapsed"), "wake") EXCEPT !.pc = "rl_store"]]
    /\ UNCHANGED <<translator, provider, now, po_entries, pending, call_times, translating>>

\* line 444: self.last_request = time.time()
RateStore(k) ==
    /\ pool[k].pc = "rl_store"
    /\ translator' = [translator EXCEPT !.last_request = now]
    /\ pool' = [pool EXCEPT ![k] = [Forget(Forget(@, "elapsed"), "wake") EXCEPT !.pc = "count_load"]]
    /\ UNCHANGED <<provider, now, po_entries, pending, call_times, translating>>

\* line 533, self.stats["api_calls"] += 1: the counter is read
CountLoad(k) ==
    /\ pool[k].pc = "count_load"
    /\ pool' = [pool EXCEPT ![k].loaded = translator.stats.api_calls, ![k].pc = "count_store"]
    /\ UNCHANGED <<translator, provider, now, po_entries, pending, call_times, translating>>

\* line 533: the counter is written
CountStore(k) ==
    /\ pool[k].pc = "count_store"
    /\ translator' = [translator EXCEPT !.stats.api_calls = pool[k].loaded + 1]
    /\ pool' = [pool EXCEPT ![k] = [Forget(@, "loaded") EXCEPT !.pc = "call"]]
    /\ UNCHANGED <<provider, now, po_entries, pending, call_times, translating>>

\* line 537: generate_content is invoked
Call(k) ==
    /\ pool[k].pc = "call"
    /\ provider' = [provider EXCEPT !.calls = @ + 1]
    /\ call_times' = Append(call_times, now)
    /\ pool' = [pool EXCEPT ![k].pc = "answer"]
    /\ UNCHANGED <<translator, now, po_entries, pending, translating>>

\* lines 538-545 and 611-613: the response is validated, cached and set on the entry
Respond(k) ==
    /\ pool[k].pc = "answer"
    /\ \E translation \in { ResponseText(provider.script[1]) } :
        /\ _validate_translation(po_entries[pool[k].task].msgid, translation)
        /\ translator' = [translator EXCEPT !.cache =
                cache_set(@, po_entries[pool[k].task].msgid, translation,
                          translator.source_lang \o "→" \o translator.target_lang \o "|" \o PoolContext)]
        /\ po_entries' = [po_entries EXCEPT ![pool[k].task].msgstr = translation]
    /\ pool' = [pool EXCEPT ![k] = IdleWorker]
    /\ UNCHANGED <<provider, now, pending, call_times, translating>>

\* the clock
Tick ==
    /\ now < MaxTime
    /\ now' = now + 1
    /\ UNCHANGED <<translator, provider, po_entries, pool, pending, call_times, translating>>

NextRate ==
    \/ \E k \in Workers : Take(k) /\ UNCHANGED notPool
    \/ \E k \in Workers : RateRead(k) /\ UNCHANGED notPool
    \/ \E k \in Workers : RateWake(k) /\ UNCHANGED notPool
    \/ \E k \in Workers : RateStore(k) /\ UNCHANGED notPool
    \/ \E k \in Workers : CountLoad(k) /\ UNCHANGED notPool
    \/ \E k \in Workers : CountStore(k) /\ UNCHANGED notPool
    \/ \E k \in Workers : Call(k) /\ UNCHANGED notPool
    \/ \E k \in Workers : Respond(k) /\ UNCHANGED notPool
    \/ Tick /\ UNCHANGED notPool
    \/ Cancel /\ UNCHANGED notPool

SpecRate == InitRate /\ [][NextRate]_vars

\* C10: any two consecutive provider calls are at least the minimum spacing apart
C10_CallsSpaced ==
    \A i \in 1..(Len(call_times) - 1) : call_times[i + 1] - call_times[i] >= rate_limit

C12_CountersExact ==
    (\A k \in Workers : pool[k].pc = "idle") =>
        /\ translator.stats.api_calls = provider.calls
        /\ translator.stats.total_requests = provider.calls

-----------------------------------------------------------------------------
(* The cache specification: threads of the pool calling TranslationCache.set on one *)
(* cache, step by step: the item is stored in the dict, the cache file is opened for *)
(* writing, the dict is dumped into the buffer of the file object, the file is closed *)

MaxSets == 2

\* the calls the threads make: text, translation, context (texts without characters that
\* JSON escapes or UTF-8 encodes in more than one byte)
CacheWrites ==
    { <<"Order", "Commande", "sale">>, <<"Order", "Ordre", "sale">>, <<"Order", "Ordre", None>>,
      <<"Order|sale", "Vente", "fr">>, <<"Order", "Bon", "sale|fr">> }

\* one item of the dict as json.dump writes it
JsonItem(key, value) == "\"" \o key \o "\": \"" \o value \o "\""

RECURSIVE JsonItems(_, _, _)
JsonItems(cache, order, i) ==
    IF i > Len(order) THEN ""
    ELSE (IF i = 1 THEN "" ELSE ",\n  ") \o JsonItem(order[i], cache[order[i]])
            \o JsonItems(cache, order, i + 1)

\* json.dump(self.cache, f, ensure_ascii=False, indent=2)
JsonDump(cache, order) ==
    IF order = <<>> THEN "{}" ELSE "{\n  " \o JsonItems(cache, order, 1) \o "\n}"

\* the file after a file object opened with "w" is closed: its buffer is written from
\* the start of the file, what the file holds beyond the buffer stays
Flush(buffer, file) ==
    IF Len(file) > Len(buffer) THEN buffer \o SubSeq(file, Len(buffer) + 1, Len(file)) ELSE buffer

InitCache ==
    /\ IdleMerge
    /\ IdleOffline
    /\ IdleTranslate
    /\ IdleRate
    /\ IdleCache
    /\ IdleDetect
    /\ IdleConfig

\* line 63: self.cache[key] = translation
CacheStore(k, text, translation, context) ==
    /\ writers[k].pc = "idle"
    /\ \A j \in 1..(k - 1) : writers[j].pc # "idle"
    /\ Len(written) < MaxSets
    /\ translator' = [translator EXCEPT !.cache = cache_set(@, text, translation, context)]
    /\ cache_order' = IF InSeq(CacheKey(text, context), cache_order) THEN cache_order
                      ELSE Append(cache_order, CacheKey(text, context))
    /\ written' = Append(written, [text |-> text, translation |-> translation, context |-> context])
    /\ writers' = [writers EXCEPT ![k].pc = "open"]
    /\ UNCHANGED cache_file

\* line 54: open(self.cache_file, "w") truncates the file
CacheOpen(k) ==
    /\ writers[k].pc = "open"
    /\ cache_file' = ""
    /\ writers' = [writers EXCEPT ![k].pc = "dump"]
    /\ UNCHANGED <<translator, cache_order, written>>

\* line 55: json.dump fills the buffer of the file object
CacheDump(k) ==
    /\ writers[k].pc = "dump"
    /\ writers' = [writers EXCEPT ![k] = [pc |-> "close",
                                          buffer |-> JsonDump(translator.cache, cache_order)]]
    /\ UNCHANGED <<translator, cache_order, cache_file, written>>

\* the end of the with block of line 54: the file object is closed, its buffer flushed
CacheClose(k) ==
    /\ writers[k].pc = "close"
    /\ cache_file' = Flush(writers[k].buffer, cache_file)
    /\ writers' = [writers EXCEPT ![k] = IdleWriter]
    /\ UNCHANGED <<translator, cache_order, written>>

NextCache ==
    \/ \E k \in Workers, w \in CacheWrites : CacheStore(k, w[1], w[2], w[3]) /\ UNCHANGED notCache
    \/ \E k \in Workers : CacheOpen(k) /\ UNCHANGED notCache
    \/ \E k \in Workers : CacheDump(k) /\ UNCHANGED notCache
    \/ \E k \in Workers : CacheClose(k) /\ UNCHANGED notCache

SpecCache == InitCache /\ [][NextCache]_vars

\* the key of the i-th set call
WrittenKey(i) == CacheKey(written[i].text, written[i].context)

\* C13: once every set call has returned, the in-memory cache holds for every key
\* written one of the values written for it, and the cache file is the dump of the
\* in-memory cache
C13_StoreConsistent ==
    (written # <<>> /\ \A k \in Workers : writers[k].pc = "idle") =>
        /\ \A i \in 1..Len(written) :
            /\ WrittenKey(i) \in DOMAIN translator.cache
            /\ \E j \in 1..Len(written) :
                /\ WrittenKey(j) = WrittenKey(i)
                /\ written[j].translation = translator.cache[WrittenKey(i)]
        /\ cache_file = JsonDump(translator.cache, cache_order)

\* the (text, context) pairs looked up
Probes == { <<w[1], w[3]>> : w \in CacheWrites }

\* C18: a set call for one (text, context) pair changes what get returns for no other pair
C18_RecordsIndependent ==
    [][ Len(written') > Len(written) =>
            \A pr \in Probes :
                pr # <<written'[Len(written')].text, written'[Len(written')].context>> =>
                    cache_get(translator'.cache, pr[1], pr[2]) = cache_get(translator.cache, pr[1], pr[2]) ]_vars

-----------------------------------------------------------------------------
(* The configuration specification: a Translator is constructed, then configured and *)
(* used through set_api_key, set_offline_mode, configure_languages, translate, *)
(* auto_translate_entry and batch_translate, at most MaxOps times *)

MaxOps == 3

\* set_api_key without the early return of offline mode
set_api_key_online(self, api_key, available, configured) ==
    IF ~available THEN [self EXCEPT !.api_key = api_key]
    ELSE [self EXCEPT !.api_key = api_key, !.model = configured]

\* configured: genai.configure and genai.GenerativeModel raise nothing
set_api_key(self, api_key, available, configured) ==
    IF self.offline_mode THEN [self EXCEPT !.api_key = api_key]
    ELSE IF ~available THEN [self EXCEPT !.api_key = api_key]
    ELSE [self EXCEPT !.api_key = api_key, !.model = configured]

set_offline_mode(self, offline, available, configured) ==
    IF offline = self.offline_mode THEN self
    ELSE IF offline THEN [self EXCEPT !.offline_mode = TRUE, !.model = FALSE]
    ELSE IF Truthy(self.api_key) /\ available
         THEN set_api_key([self EXCEPT !.offline_mode = FALSE], self.api_key, available, configured)
         ELSE [self EXCEPT !.offline_mode = FALSE]

\* source, target: a code or None; auto_detect: <<>> for None, or a boolean in a tuple
configure_languages(self, source, target, auto_detect) ==
    LET s1 == IF Truthy(source) /\ source \in LANGUAGES /\ source # self.source_lang
              THEN [self EXCEPT !.source_lang = source] ELSE self
        s2 == IF Truthy(target) /\ target \in LANGUAGES /\ target # s1.target_lang
              THEN [s1 EXCEPT !.target_lang = target] ELSE s1
        s3 == IF auto_detect # <<>> /\ auto_detect[1] # s2.auto_detect
              THEN [s2 EXCEPT !.auto_detect = auto_detect[1]] ELSE s2
    IN  [self |-> s3, ret |-> s3 # self]

\* Translator(api_key) with PO_TRANSLATOR_OFFLINE_MODE saying offline or not
Translator_init(api_key, offline, available, configured) ==
    LET self == [NewTranslator(offline, FALSE) EXCEPT !.api_key = api_key]
    IN  IF Truthy(api_key) THEN set_api_key(self, api_key, available, configured) ELSE self

ConfigEntries == << POEntry("Customer", ""), POEntry("Stock %s", "") >>

ConfigArgs ==
    { <<"Order %s", None, None, "sale", 1>>, <<"Order %s", "en", "de", None, 0>>,
      <<"Customer", None, None, None, 1>> }

ConfigLanguages == { <<"es", None, <<>>>>, <<None, "de", <<FALSE>>>>, <<"zz", "fr", <<TRUE>>>> }

InitConfig ==
    /\ IdleMerge
    /\ IdleOffline
    /\ IdleRate
    /\ IdleCache
    /\ IdleDetect
    /\ AVAILABLE \in BOOLEAN
    /\ translator \in { Translator_init(api_key, offline, AVAILABLE, configured) :
                            api_key \in {None, ApiKey}, offline \in BOOLEAN, configured \in BOOLEAN }
    /\ provider = [script |-> <<"Client">>, calls |-> 0]
    /\ now = rate_limit
    /\ tprev = NoTCall
    /\ tlast = NoTCall
    /\ tcount = 0
    /\ detector = None
    /\ po_entries = ConfigEntries
    /\ elast = NoECall
    /\ blast = NoBCall

SetApiKey(api_key, configured) ==
    /\ tcount < MaxOps
    /\ translator' = set_api_key(translator, api_key, AVAILABLE, configured)
    /\ tcount' = tcount + 1
    /\ UNCHANGED <<provider, now, po_entries>>

SetOfflineMode(offline, configured) ==
    /\ tcount < MaxOps
    /\ translator' = set_offline_mode(translator, offline, AVAILABLE, configured)
    /\ tcount' = tcount + 1
    /\ UNCHANGED <<provider, now, po_entries>>

ConfigureLanguages(source, target, auto_detect) ==
    /\ tcount < MaxOps
    /\ translator' = configure_languages(translator, source, target, auto_detect).self
    /\ tcount' = tcount + 1
    /\ UNCHANGED <<provider, now, po_entries>>

ConfigTranslate(args) ==
    /\ tcount < MaxOps
    /\ \E r \in { translate(World(translator, provider, now), args[1], args[2], args[3], args[4], args[5]) } :
        /\ translator' = r.w.self
        /\ provider' = r.w.provider
        /\ now' = r.w.now
    /\ tcount' = tcount + 1
    /\ UNCHANGED po_entries

ConfigTranslateEntry(i, module, force) ==
    /\ tcount < MaxOps
    /\ \E r \in { auto_translate_entry(World(translator, provider, now), detector, po_entries[i], module, force) } :
        /\ translator' = r.w.self
        /\ provider' = r.w.provider
        /\ now' = r.w.now
        /\ po_entries' = [po_entries EXCEPT ![i] = r.entry]
    /\ tcount' = tcount + 1

ConfigBatchTranslate(module, force) ==
    /\ tcount < MaxOps
    /\ \E b \in { batch_translate(World(translator, provider, now), detector, po_entries, module, force) } :
        /\ translator' = b.w.self
        /\ provider' = b.w.provider
        /\ now' = b.w.now
        /\ po_entries' = b.entries
    /\ tcount' = tcount + 1

NextConfig ==
    \/ \E configured \in BOOLEAN : SetApiKey(ApiKey, configured) /\ UNCHANGED notConfig
    \/ \E offline \in BOOLEAN, configured \in BOOLEAN :
            SetOfflineMode(offline, configured) /\ UNCHANGED notConfig
    \/ \E l \in ConfigLanguages : ConfigureLanguages(l[1], l[2], l[3]) /\ UNCHANGED notConfig
    \/ \E args \in ConfigArgs : ConfigTranslate(args) /\ UNCHANGED notConfig
    \/ \E i \in 1..Len(ConfigEntries) : ConfigTranslateEntry(i, "sale", FALSE) /\ UNCHANGED notConfig
    \/ ConfigBatchTranslate("sale", TRUE) /\ UNCHANGED notConfig

SpecConfig == InitConfig /\ [][NextConfig]_vars

\* what the counters of the Translator gained in a step
Gained(k) == translator'.stats[k] - translator.stats[k]

\* C14: whenever offline mode is on the Translator has no model, and an operation that
\* starts with offline mode on makes no provider call, leaves api_calls alone and
\* serves every request it counts from the cache or from the offline engine
C14_OfflineNeverCallsProvider ==
    /\ [](translator.offline_mode => ~translator.model)
    /\ [][ translator.offline_mode =>
            /\ provider'.calls = provider.calls
            /\ Gained("api_calls") = 0
            /\ Gained("total_requests") = Gained("cache_hits") + Gained("offline_requests") ]_vars

\* a Translator that called the provider online was switched to offline mode, its key
\* kept, and served a request from the offline engine
C14_Witness ==
    /\ translator.offline_mode
    /\ translator.api_key = ApiKey
    /\ translator.stats.api_calls > 0
    /\ translator.stats.offline_requests > 0

-----------------------------------------------------------------------------
(* The detector specification: detect_language, is_french_text and is_english_text
   called on the module of utils/language.py, the libraries answering as they will *)

MaxDetects == 2

\* what langid's classify() may answer
LangidAnswers == { <<"de", 90>>, <<"de", 50>>, <<"sv", 50>> }

\* what translator.detect may do
GoogleAnswers == { Raised, Nothing, <<"zh-CN", 90>>, <<"de", 50>> }

\* what detect_langs may do: LangDetectException, or a first candidate
LangdetectAnswers == { Raised, <<"nl", 90>>, <<"sv", 50>> }

\* whether GoogleTranslator() returns, and what translator.detect does once it has
GoogleOutcomes ==
    { [init_ok |-> FALSE, answer |-> Nothing] } \cup
    { [init_ok |-> TRUE, answer |-> answer] : answer \in GoogleAnswers }

DetectEnvs == [langid : LangidAnswers, google : GoogleOutcomes, langdetect : LangdetectAnswers]

\* the libraries are asked only about a text that is not blank and that the heuristics
\* leave open, and detect_langs only about one of three words or more
DetectEnvsFor(text) ==
    IF TextFacts[text].blank \/ TextFacts[text].heuristic # None
    THEN { CHOOSE env \in DetectEnvs : TRUE }
    ELSE IF TextFacts[text].words < 3
    THEN { env \in DetectEnvs : env.langdetect = Raised }
    ELSE DetectEnvs

\* PO_TRANSLATOR_USE_GOOGLE_DETECTION in the environment of the process
Toggles == { "1", " Off" }

\* a call as the properties see it; candidate is what detect_langs ranked first when the
\* verdict is that of the last stage
DCall(op, text, r, before, env) ==
    [op |-> op, text |-> text, result |-> r.lang, verdict |-> r.verdict, stage |-> r.stage,
     before |-> before,
     candidate |-> IF r.stage = "langdetect" THEN env.langdetect ELSE Nothing]

InitDetect ==
    /\ IdleMerge
    /\ IdleOffline
    /\ IdleTranslate
    /\ IdleRate
    /\ IdleCache
    /\ IdleConfig
    /\ \E toggle \in Toggles, installed \in BOOLEAN :
           detection = [FreshDetection EXCEPT !.toggle = toggle, !.installed = installed]
    /\ dlast = NoDCall
    /\ dcount = 0

DetectLanguage(text) ==
    /\ dcount < MaxDetects
    /\ \E env \in DetectEnvsFor(text) :
          \E r \in { detect_language_code(detection, text, DefaultMinConfidence, env) } :
             /\ detection' = r.d
             /\ dlast' = DCall("detect_language", text, r, detection, env)
    /\ dcount' = dcount + 1

\* is_french_text and is_english_text: whether the text is in `lang`
IsLanguageText(op, lang, text) ==
    /\ dcount < MaxDetects
    /\ \E env \in DetectEnvsFor(text) :
          \E r \in { is_language_text(detection, text, lang, env) } :
             /\ detection' = r.d
             /\ dlast' = DCall(op, text, r, detection, env)
    /\ dcount' = dcount + 1

NextDetect ==
    \/ \E text \in DetectTexts : DetectLanguage(text) /\ UNCHANGED notDetect
    \/ \E text \in DetectTexts : IsLanguageText("is_french_text", "fr", text) /\ UNCHANGED notDetect
    \/ \E text \in DetectTexts : IsLanguageText("is_english_text", "en", text) /\ UNCHANGED notDetect

SpecDetect == InitDetect /\ [][NextDetect]_vars

\* C21: detect_language returns a language code only when the confidence of the verdict
\* is at least the threshold, and returns none for empty or whitespace-only text.
C21_CodeOnlyAboveThreshold ==
    dlast.op = "detect_language" =>
        /\ dlast.result # None => dlast.verdict.conf >= DefaultMinConfidence
        /\ Strip(dlast.text) = "" => dlast.result = None

\* the provider of the external detection was reached by the step: its client was
\* constructed or its detect was called
ProviderReached ==
    \/ detection'.invoked # detection.invoked
    \/ detection'.constructed # detection.constructed

\* C22: the external detection provider is a one-way circuit breaker: once a detection
\* call or the construction of the client has failed the provider is disabled, no later
\* call reaches it, and nothing turns the disabled state back to enabled.
C22_BreakerOneWay ==
    /\ [](detection.failures > 0 => detection.disabled)
    /\ [][/\ detection.disabled => detection'.disabled
          /\ (detection.failures > 0 \/ detection.disabled) => ~ProviderReached]_vars

\* a call made after a failure, for a text not yet cached, that went past the provider's stage
C22_Witness ==
    /\ dlast.op # None
    /\ dlast.before.failures > 0
    /\ dlast.text \notin DOMAIN dlast.before.google_cache
    /\ dlast.stage \in {"langdetect", "fallback"}

\* C27: the statistical fallback for texts of three words or more applies the
\* reclassification rules of the classifier stage: a Scandinavian first candidate becomes
\* English only when the text holds an English indicator, a Romance one becomes French
\* only with three French indicators or more, and any other first candidate is returned
\* under its own code with its own probability.
C27_FallbackSameRules ==
    (dlast.op # None /\ dlast.stage = "langdetect") =>
        dlast.verdict =
            LangidScandinavian(dlast.text,
                LangidRomance(dlast.text,
                    Verdict(_normalize_lang_code(dlast.candidate[1]), dlast.candidate[2])))

-----------------------------------------------------------------------------
(* The direction specification: a Translator in one of its modes with its languages
   configured, a provider, a detector with a fixed verdict and one entry; then at most
   MaxRequests calls of auto_translate_entry and translate *)

MaxRequests == 2

\* the arguments of configure_languages after construction: en to fr, fr to en and
\* en to de, with and without auto-detection
DirectionLanguages ==
    { <<None, None, <<>>>>, <<None, None, <<FALSE>>>>, <<"fr", "en", <<>>>>,
      <<"fr", "en", <<FALSE>>>>, <<None, "de", <<>>>>, <<None, "de", <<FALSE>>>> }

DirectionEntries ==
    { POEntry("Customer", ""), POEntry("Customer", "Customer"), POEntry("Customer", "Client"),
      POEntry("Client", ""), POEntry("Stock %s", ""), POEntry(" ", "x") }

DirectionScripts == { <<"Client">>, <<"Lager %s">> }

\* what the statistical detectors say of a text the heuristics leave open: "ru" is no
\* key of LANGUAGES
DirectionVerdicts == { "de", "fr", "ru", None }

\* <<text, from_lang, to_lang, context, max_retries>>
DirectionArgs ==
    { <<"Order %s", "zz", "fr", "sale", DefaultMaxRetries>>, <<"Customer", None, None, None, 0>> }

\* the record of an auto_translate_entry call with the world before and after it
DirectionCall(module, force, entry0, r, before) ==
    [ done |-> TRUE, module |-> module, force |-> force, entry0 |-> entry0,
      entry1 |-> r.entry, ret |-> r.ret, raised |-> r.raised, before |-> before,
      after |-> r.w ]

InitDirection ==
    /\ IdleMerge
    /\ IdleOffline
    /\ IdleRate
    /\ IdleCache
    /\ IdleDetect
    /\ IdleConfig
    /\ translator \in { configure_languages(mode, l[1], l[2], l[3]).self :
                            mode \in Modes, l \in DirectionLanguages }
    /\ provider \in { [script |-> script, calls |-> 0] : script \in DirectionScripts }
    /\ now = rate_limit
    /\ tprev = NoTCall
    /\ tlast = NoTCall
    /\ tcount = 0
    /\ detector \in DirectionVerdicts
    /\ po_entries \in { <<entry>> : entry \in DirectionEntries }
    /\ elast = NoECall
    /\ blast = NoBCall

DirectionTranslateEntry(module, force) ==
    /\ tcount < MaxRequests
    /\ \E r \in { auto_translate_entry(World(translator, provider, now), detector,
                                       po_entries[1], module, force) } :
        /\ translator' = r.w.self
        /\ provider' = r.w.provider
        /\ now' = r.w.now
        /\ po_entries' = [po_entries EXCEPT ![1] = r.entry]
        /\ elast' = DirectionCall(module, force, po_entries[1], r,
                                  World(translator, provider, now))
    /\ tcount' = tcount + 1
    /\ UNCHANGED <<tprev, tlast, detector, blast>>

DirectionTranslate(args) ==
    /\ tcount < MaxRequests
    /\ \E r \in { translate(World(translator, provider, now), args[1], args[2], args[3],
                             args[4], args[5]) } :
        /\ translator' = r.w.self
        /\ provider' = r.w.provider
        /\ now' = r.w.now
        /\ tlast' = TCall(args, r.ret, World(translator, provider, now), r.w)
    /\ tprev' = tlast
    /\ tcount' = tcount + 1
    /\ UNCHANGED <<detector, po_entries, elast, blast>>

NextDirection ==
    \/ \E force \in BOOLEAN : DirectionTranslateEntry("sale", force) /\ UNCHANGED notTranslate
    \/ \E args \in DirectionArgs : DirectionTranslate(args) /\ UNCHANGED notTranslate

SpecDirection == InitDirection /\ [][NextDirection]_vars

\* the call neither changed the entry nor asked for a translation: the Translator, the
\* provider and the clock are as they were
Skipped(call) ==
    /\ ~call.raised
    /\ call.ret = FALSE
    /\ call.entry1 = call.entry0
    /\ call.after = call.before

\* C24: translate_entry skips an already translated entry: when the translation of the
\* entry is not empty, be it equal to the source text, and force is false, the call
\* returns false, leaves the entry unchanged, looks nothing up, translates nothing and
\* counts nothing.
C24_TranslatedSkipped ==
    (elast.done /\ Truthy(elast.entry0.msgstr) /\ ~elast.force) => Skipped(elast)

\* what the detector says of the source text of the call
DetectedFor(call) == detect_language(detector, Strip(call.entry0.msgid))

\* C25: translate_entry skips a text that is already in the target language, whatever
\* the target and whether auto-detection is on or off: when force is false and the
\* detector gives the target language for the source text, the call returns false,
\* leaves the entry unchanged and requests no translation.
C25_InTargetSkipped ==
    (elast.done /\ ~elast.force /\ DetectedFor(elast) = elast.before.self.target_lang)
        => Skipped(elast)

\* the call got as far as resolving the direction: the source text is not blank, the
\* entry is not one of those lines 578-585 leave alone
Resolves(call) ==
    /\ call.done
    /\ Strip(call.entry0.msgid) # ""
    /\ ~(Truthy(call.entry0.msgstr) /\ call.entry0.msgid # call.entry0.msgstr /\ ~call.force)
    /\ ~(~call.force /\ DetectedFor(call) = "fr" /\ call.before.self.target_lang = "fr")

\* the call did what a request for a translation from from_lang to the configured
\* target does: to the Translator, the provider and the clock, to the entry, and in
\* what it returned
RequestedFrom(call, from_lang) ==
    /\ ~call.raised
    /\ call.after = TranslateEntryFrom(call.before, call.entry0, Strip(call.entry0.msgid),
                                       from_lang, call.module).w
    /\ call.entry1 = TranslateEntryFrom(call.before, call.entry0, Strip(call.entry0.msgid),
                                        from_lang, call.module).entry
    /\ call.ret = TranslateEntryFrom(call.before, call.entry0, Strip(call.entry0.msgid),
                                     from_lang, call.module).ret

C30_ApiCallsCountRequests == translator.stats.api_calls = provider.calls

====
